---- MODULE Spec2Model ----
(***************************************************************************)
(* KangKlip backend: the clip unlock handler and the store and chain it    *)
(* talks to, the job record life cycle, and the wallet challenge/verify    *)
(* flow.  Every await of a handler on the store or on the chain is one     *)
(* action, so that concurrent requests interleave exactly where the        *)
(* handlers can be suspended.                                              *)
(***************************************************************************)
EXTENDS Integers, Sequences, FiniteSets, TLC

\* ------------------------------------------------------------------ bounds
MaxReq == 2
MaxMonoReq == 3
MaxBal == 2
MaxResults == 1
MaxExpire == 1
MaxCb == 2
MaxVerify == 2
MaxClipReq == 1
MaxGated == 2
MaxClipUnlock == 1
MaxTopup == 2
MaxCalls == 3
MaxStartCalls == 2

\* ---------------------------------------------------------------- universes
Jobs == {"j1"}
ClipFiles == {"a.mp4", "b.mp4"}
Targets == Jobs \X ClipFiles
Rids == {"R1", "R2"}
Wallets == {"W1"}

VARIABLES
    ent,        \* ent:<job>:<clip> keys of the store (ClipUnlock)
    idem,       \* idem:<unlockRequestId> keys (IdempotencyResult)
    pend,       \* unlock:pending:<unlockRequestId> keys (UnlockPending)
    bal,        \* on-chain UserCredit.credits per wallet
    landed,     \* unlock requests whose consume_credit was executed on chain
    req,        \* the unlock requests: position in the handler, inputs, response
    resq,       \* the results requests
    seenUnl,    \* history: a response has reported unlocked=true for the target
    firstFinal, \* history: the first final response of each unlock_request_id
    submits,    \* history: consume_credit submissions per unlock_request_id
    newWrites,  \* history: final NEW IdempotencyResults written per id
    expired,    \* history: how many times the idem key of the id has expired
    spent       \* spent:<wallet> keys of the store (WalletSpend)

VARIABLES
    jobs,       \* the job records of the store, by job id
    creator,    \* the POST /api/jobs request and its start timer
    starter,    \* the POST /api/jobs/:jobId/start request
    cb,         \* the POST /api/callback/nosana requests
    obs,        \* history: what GET /api/jobs/:jobId last returned
    regressed,  \* history: a GET returned a status behind an earlier one
    worker      \* history: the callbacks sent so far, as a worker's run

VARIABLES
    nonces,     \* auth:nonce:<nonce> keys of the store
    tokens,     \* auth:token:<token> keys of the store
    ver,        \* the POST /api/auth/verify requests
    issued      \* history: the nonces a challenge has handed out

VARIABLES
    clipq,      \* the preview, download and clip-stream requests
    marker,     \* topup:tx:<signature> keys of the store
    tq,         \* the POST /api/credits/topup/usdc/confirm requests
    chainTx,    \* what the RPC node returns for a transaction signature
    marks       \* history: successful writes of the marker of a signature

VARIABLES
    fabric,     \* deployment.status as the fabric reports it
    sd          \* the startDeployment calls for the deployment

jobVars == <<jobs, creator, starter, cb, obs, regressed, worker>>

clipVars == <<clipq>>

topupVars == <<marker, tq, chainTx, marks>>

authVars == <<nonces, tokens, ver, issued>>

unlockVars == <<ent, idem, pend, bal, landed, req, resq, seenUnl, firstFinal,
                submits, newWrites, expired, spent>>

fabricVars == <<fabric, sd>>

nonUnlockVars == <<jobVars, authVars, clipVars, topupVars, fabricVars>>

vars == <<unlockVars, jobVars, authVars, clipVars, topupVars, fabricVars>>

\* ------------------------------------------------------------ store payloads
\* The JSON payload stored under idem:<id>; kind "none" is a missing key,
\* kind "pending" is {status: "pending"}, kind "final" is the five-field record.
IdemRec(kind, job, clip, unlocked, charged, idempotency) ==
    [kind |-> kind, job |-> job, clip |-> clip, unlocked |-> unlocked,
     charged |-> charged, idempotency |-> idempotency]

NoIdem == IdemRec("none", "-", "-", FALSE, 0, "-")
PendingIdem == IdemRec("pending", "-", "-", FALSE, 0, "-")

PendRec(present, job, clip, wallet) ==
    [present |-> present, job |-> job, clip |-> clip, wallet |-> wallet]

NoPend == PendRec(FALSE, "-", "-", "-")

\* An HTTP response: the status and the body.  Body kind "unlock" carries
\* job_id, clip_file, unlocked, charged_credits, idempotency; kind "detail" is
\* {detail: ...}; kind "pending" is the stored {status: "pending"} payload.
Resp(status, kind, job, clip, unlocked, charged, idempotency) ==
    [status |-> status, kind |-> kind, job |-> job, clip |-> clip,
     unlocked |-> unlocked, charged |-> charged, idempotency |-> idempotency]

NoResp == Resp(0, "none", "-", "-", FALSE, 0, "-")
Detail(status) == Resp(status, "detail", "-", "-", FALSE, 0, "-")

StoredAsReplay(p) == Resp(200, "unlock", p.job, p.clip, TRUE, 0, "REPLAY")

\* res.json(payload) of a stored idempotency payload: status 200, body as stored.
JsonOfStored(p) ==
    IF p.kind = "pending"
    THEN Resp(200, "pending", "-", "-", FALSE, 0, "-")
    ELSE Resp(200, "unlock", p.job, p.clip, p.unlocked, p.charged, p.idempotency)

IdleReq ==
    [pc |-> "idle", rid |-> "-", job |-> "-", clip |-> "-", wallet |-> "-",
     low |-> FALSE, resp |-> NoResp, after |-> FALSE, respAfter |-> FALSE,
     afterFinal |-> FALSE, fresh |-> FALSE, gate |-> "none"]

IdleResq ==
    [pc |-> "idle", job |-> "-", toRead |-> {}, locked |-> {},
     after |-> {}, respAfter |-> {}, code |-> 0, gate |-> "none"]

\* ------------------------------------------------------------ unlock handler
\* POST /api/jobs/:jobId/clips/:clipFile/unlock.  The jobs of this part are
\* SUCCEEDED with an r2_prefix and a manifest listing ClipFiles.

Tgt(r) == <<req[r].job, req[r].clip>>

\* History kept when a response is sent: which targets have been reported
\* unlocked, and the first final response of an id (fresh = the responder is
\* the request that went past Begin).
Finish(r, resp, fresh) ==
    /\ req' = [req EXCEPT ![r].pc = "done", ![r].resp = resp,
                          ![r].respAfter = seenUnl[Tgt(r)], ![r].fresh = fresh]
    /\ seenUnl' = IF resp.kind = "unlock" /\ resp.unlocked
                  THEN [seenUnl EXCEPT ![<<resp.job, resp.clip>>] = TRUE]
                  ELSE seenUnl
    /\ firstFinal' = IF fresh /\ ~firstFinal[req[r].rid].set
                     THEN [firstFinal EXCEPT ![req[r].rid] =
                              [set |-> TRUE, resp |-> resp, job |-> req[r].job,
                               clip |-> req[r].clip, wallet |-> req[r].wallet]]
                     ELSE firstFinal

Goto(r, pc) == req' = [req EXCEPT ![r].pc = pc]

ReplayBody(r) == Resp(200, "unlock", req[r].job, req[r].clip, TRUE, 0, "REPLAY")
ReplayIdemCharged(r) == IdemRec("final", req[r].job, req[r].clip, TRUE, 1, "REPLAY")
ReplayIdem(r) == IdemRec("final", req[r].job, req[r].clip, TRUE, 0, "REPLAY")
RefusedAsUnlocked(r) == IdemRec("final", req[r].job, req[r].clip, TRUE, 0, "NEW")
RefusedIdem(r) == IdemRec("final", req[r].job, req[r].clip, FALSE, 0, "NEW")
ChargedIdem(r) == IdemRec("final", req[r].job, req[r].clip, TRUE, 1, "NEW")
ChargedBody(r) == Resp(200, "unlock", req[r].job, req[r].clip, TRUE, 1, "NEW")

\* The request passes the job-token and auth-token gates and the handler's
\* checks (job SUCCEEDED, unlock_request_id a string, r2_prefix, clip in the
\* manifest); the reads of on-chain and spent credits that follow are unused.
StartUnlock(r, rid, job, clip, w) ==
    /\ req[r].pc = "idle"
    /\ \A q \in DOMAIN req : q < r => req[q].pc # "idle"
    /\ req' = [req EXCEPT ![r] =
                 [IdleReq EXCEPT !.pc = "getPending", !.rid = rid, !.job = job,
                                 !.clip = clip, !.wallet = w,
                                 !.after = seenUnl[<<job, clip>>],
                                 !.afterFinal = /\ firstFinal[rid].set
                                                /\ firstFinal[rid].job = job
                                                /\ firstFinal[rid].clip = clip
                                                /\ firstFinal[rid].wallet = w]]
    /\ UNCHANGED <<ent, idem, pend, bal, landed, resq, seenUnl, firstFinal,
                   submits, newWrites, expired,
                   spent, nonUnlockVars>>

PendingMatchesAnyClip(p, job, clip) == p.present

\* unlockPending && pendingJob === jobId && pendingClip === clipFile
PendingMatches(p, job, clip) == p.present /\ p.job = job /\ p.clip = clip

GetUnlockPending(r) ==
    /\ req[r].pc = "getPending"
    /\ IF PendingMatches(pend[req[r].rid], req[r].job, req[r].clip)
       THEN Goto(r, "recSetClip")
       ELSE Goto(r, "isUnlocked")
    /\ UNCHANGED <<ent, idem, pend, bal, landed, resq, seenUnl, firstFinal,
                   submits, newWrites, expired,
                   spent, nonUnlockVars>>

RecoverSetClip(r) ==
    /\ req[r].pc = "recSetClip"
    /\ ent' = [ent EXCEPT ![Tgt(r)] = TRUE]
    /\ Goto(r, "recDelPending")
    /\ UNCHANGED <<idem, pend, bal, landed, resq, seenUnl, firstFinal,
                   submits, newWrites, expired,
                   spent, nonUnlockVars>>

RecoverDeletePending(r) ==
    /\ req[r].pc = "recDelPending"
    /\ pend' = [pend EXCEPT ![req[r].rid] = NoPend]
    /\ Goto(r, "recSetIdem")
    /\ UNCHANGED <<ent, idem, bal, landed, resq, seenUnl, firstFinal,
                   submits, newWrites, expired,
                   spent, nonUnlockVars>>

RecoverSetIdem(r) ==
    /\ req[r].pc = "recSetIdem"
    /\ idem' = [idem EXCEPT ![req[r].rid] = ReplayIdem(r)]
    /\ Finish(r, ReplayBody(r), FALSE)
    /\ UNCHANGED <<ent, pend, bal, landed, resq, submits, newWrites, expired,
                   spent, nonUnlockVars>>

\* const alreadyUnlocked = await store.isClipUnlocked(jobId, clipFile)
AlreadyUnlocked(e) == e

IsClipUnlocked(r) ==
    /\ req[r].pc = "isUnlocked"
    /\ IF AlreadyUnlocked(ent[Tgt(r)])
       THEN Goto(r, "fastSetIdem")
       ELSE Goto(r, "getIdem")
    /\ UNCHANGED <<ent, idem, pend, bal, landed, resq, seenUnl, firstFinal,
                   submits, newWrites, expired,
                   spent, nonUnlockVars>>

FastSetIdem(r) ==
    /\ req[r].pc = "fastSetIdem"
    /\ idem' = [idem EXCEPT ![req[r].rid] = ReplayIdem(r)]
    /\ Finish(r, ReplayBody(r), FALSE)
    /\ UNCHANGED <<ent, pend, bal, landed, resq, submits, newWrites, expired,
                   spent, nonUnlockVars>>

GetIdempotencyResult(r) ==
    /\ req[r].pc = "getIdem"
    /\ LET cur == idem[req[r].rid] IN
       IF cur.kind = "none" THEN
           /\ Goto(r, "setIfAbsent")
           /\ UNCHANGED <<seenUnl, firstFinal>>
       ELSE IF cur.kind = "pending" THEN Finish(r, Detail(409), FALSE)
       ELSE Finish(r, JsonOfStored(cur), FALSE)
    /\ UNCHANGED <<ent, idem, pend, bal, landed, resq, submits, newWrites,
                   expired,
                   spent, nonUnlockVars>>

LockSetAlways(cur) == TRUE

\* SET key value NX EX 300: "OK" only when the key is absent.
LockSet(cur) == cur.kind = "none"

SetIdempotencyIfAbsent(r) ==
    /\ req[r].pc = "setIfAbsent"
    /\ IF LockSet(idem[req[r].rid])
       THEN /\ idem' = [idem EXCEPT ![req[r].rid] = PendingIdem]
            /\ Goto(r, "fetchCredits")
       ELSE /\ Goto(r, "reread")
            /\ UNCHANGED idem
    /\ UNCHANGED <<ent, pend, bal, landed, resq, seenUnl, firstFinal,
                   submits, newWrites, expired,
                   spent, nonUnlockVars>>

RereadIdempotency(r) ==
    /\ req[r].pc = "reread"
    /\ LET cur == idem[req[r].rid] IN
       IF cur.kind # "none"
       THEN Finish(r, JsonOfStored(cur), FALSE)
       ELSE Finish(r, Detail(409), FALSE)
    /\ UNCHANGED <<ent, idem, pend, bal, landed, resq, submits, newWrites,
                   expired,
                   spent, nonUnlockVars>>

InsufficientNever(credits) == FALSE

\* if (totalCredits < 1), if (refreshedCredits < 1)
Insufficient(credits) == credits < 1

\* const totalCredits = await fetchOnchainCredits(walletAddress)
FundingCheck(r) ==
    /\ req[r].pc = "fetchCredits"
    /\ IF Insufficient(bal[req[r].wallet])
       THEN Goto(r, "refuseSetIdem")
       ELSE Goto(r, "consume")
    /\ UNCHANGED <<ent, idem, pend, bal, landed, resq, seenUnl, firstFinal,
                   submits, newWrites, expired,
                   spent, nonUnlockVars>>

RefuseSetIdem(r) ==
    /\ req[r].pc = "refuseSetIdem"
    /\ idem' = [idem EXCEPT ![req[r].rid] = RefusedIdem(r)]
    /\ newWrites' = [newWrites EXCEPT ![req[r].rid] = @ + 1]
    /\ Finish(r, Detail(402), TRUE)
    /\ UNCHANGED <<ent, pend, bal, landed, resq, submits, expired,
                   spent, nonUnlockVars>>

\* ------------------------------------------------------------------- chain
\* What a consume_credit submission can end in.  The program debits when the
\* balance covers the amount and fails otherwise ("err"); with RPC faults the
\* submission can also fail before it is executed ("sendFailed"), or be executed
\* while its confirmation is lost or times out ("confirmLost").
ExecutesWithoutFunds(b) == {"ok"}

AtomicOutcomes(b) == IF b >= 1 THEN {"ok"} ELSE {"err"}
FaultyOutcomes(b) ==
    AtomicOutcomes(b) \cup {"sendFailed"} \cup (IF b >= 1 THEN {"confirmLost"} ELSE {})

Executed(o) == o \in {"ok", "confirmLost"}

ThrewNever(o) == FALSE

\* consumeOnchainCredit throws unless the transaction is sent and its
\* confirmation carries no err.
Threw(o) == o # "ok"

ConsumeWith(r, outcomes) ==
    /\ req[r].pc = "consume"
    /\ \E o \in outcomes :
         /\ IF Executed(o)
            THEN /\ bal' = [bal EXCEPT ![req[r].wallet] = @ - 1]
                 /\ landed' = landed \cup {r}
            ELSE UNCHANGED <<bal, landed>>
         /\ IF Threw(o) THEN Goto(r, "refetch") ELSE Goto(r, "setPending")
    /\ submits' = [submits EXCEPT ![req[r].rid] = @ + 1]
    /\ UNCHANGED <<ent, idem, pend, resq, seenUnl, firstFinal, newWrites, expired,
                   spent, nonUnlockVars>>

ConsumeOnchainCredit(r) == ConsumeWith(r, FaultyOutcomes(bal[req[r].wallet]))

ConsumeOnAtomicChain(r) == ConsumeWith(r, AtomicOutcomes(bal[req[r].wallet]))

\* catch: const refreshedCredits = await fetchOnchainCredits(walletAddress)
RefetchCredits(r) ==
    /\ req[r].pc = "refetch"
    /\ req' = [req EXCEPT ![r].pc = "failSetIdem", ![r].low = Insufficient(bal[req[r].wallet])]
    /\ UNCHANGED <<ent, idem, pend, bal, landed, resq, seenUnl, firstFinal,
                   submits, newWrites, expired,
                   spent, nonUnlockVars>>

FailSetIdem(r) ==
    /\ req[r].pc = "failSetIdem"
    /\ idem' = [idem EXCEPT ![req[r].rid] = RefusedIdem(r)]
    /\ newWrites' = [newWrites EXCEPT ![req[r].rid] = @ + 1]
    /\ Finish(r, IF req[r].low THEN Detail(402) ELSE Detail(502), TRUE)
    /\ UNCHANGED <<ent, pend, bal, landed, resq, submits, expired,
                   spent, nonUnlockVars>>

SetUnlockPending(r) ==
    /\ req[r].pc = "setPending"
    /\ pend' = [pend EXCEPT ![req[r].rid] =
                   PendRec(TRUE, req[r].job, req[r].clip, req[r].wallet)]
    /\ Goto(r, "setClip")
    /\ UNCHANGED <<ent, idem, bal, landed, resq, seenUnl, firstFinal,
                   submits, newWrites, expired,
                   spent, nonUnlockVars>>

SetClipUnlocked(r) ==
    /\ req[r].pc = "setClip"
    /\ ent' = [ent EXCEPT ![Tgt(r)] = TRUE]
    /\ Goto(r, "delPending")
    /\ UNCHANGED <<idem, pend, bal, landed, resq, seenUnl, firstFinal,
                   submits, newWrites, expired,
                   spent, nonUnlockVars>>

DeleteUnlockPending(r) ==
    /\ req[r].pc = "delPending"
    /\ pend' = [pend EXCEPT ![req[r].rid] = NoPend]
    /\ Goto(r, "setIdem")
    /\ UNCHANGED <<ent, idem, bal, landed, resq, seenUnl, firstFinal,
                   submits, newWrites, expired,
                   spent, nonUnlockVars>>

CommitSetIdem(r) ==
    /\ req[r].pc = "setIdem"
    /\ idem' = [idem EXCEPT ![req[r].rid] = ChargedIdem(r)]
    /\ newWrites' = [newWrites EXCEPT ![req[r].rid] = @ + 1]
    /\ Finish(r, ChargedBody(r), TRUE)
    /\ UNCHANGED <<ent, pend, bal, landed, resq, submits, expired,
                   spent, nonUnlockVars>>

\* The idem key is written with EX 300 and disappears when the TTL runs out.
Sum(f, S) == LET RECURSIVE Acc(_)
                 Acc(T) == IF T = {} THEN 0
                           ELSE LET x == CHOOSE y \in T : TRUE
                                IN f[x] + Acc(T \ {x})
             IN Acc(S)

ExpireIdem(rid) ==
    /\ idem[rid].kind # "none"
    /\ Sum(expired, Rids) < MaxExpire
    /\ idem' = [idem EXCEPT ![rid] = NoIdem]
    /\ expired' = [expired EXCEPT ![rid] = @ + 1]
    /\ UNCHANGED <<ent, pend, bal, landed, req, resq, seenUnl, firstFinal,
                   submits, newWrites,
                   spent, nonUnlockVars>>

\* ---------------------------------------------------------- results handler
\* GET /api/jobs/:jobId/results of a SUCCEEDED job: one isClipUnlocked read per
\* manifest clip (Promise.all), the response when the last read has returned.
ResultsStart(k, job) ==
    /\ resq[k].pc = "idle"
    /\ \A q \in DOMAIN resq : q < k => resq[q].pc # "idle"
    /\ resq' = [resq EXCEPT ![k] =
                  [IdleResq EXCEPT !.pc = "reading", !.job = job,
                                   !.toRead = ClipFiles,
                                   !.after = {c \in ClipFiles : seenUnl[<<job, c>>]}]]
    /\ UNCHANGED <<ent, idem, pend, bal, landed, req, seenUnl, firstFinal,
                   submits, newWrites, expired,
                   spent, nonUnlockVars>>

LockedAlways(unlockState) == TRUE

\* const locked = !unlockStates[index]
Locked(unlockState) == ~unlockState

ResultsRead(k, c) ==
    /\ resq[k].pc = "reading"
    /\ c \in resq[k].toRead
    /\ LET left == resq[k].toRead \ {c}
           lockedNow == IF Locked(ent[<<resq[k].job, c>>]) THEN {c} ELSE {}
       IN resq' = [resq EXCEPT
                     ![k].toRead = left,
                     ![k].locked = @ \cup lockedNow,
                     ![k].pc = IF left = {} THEN "done" ELSE "reading",
                     ![k].code = IF left = {} THEN 200 ELSE @,
                     ![k].respAfter = IF left = {}
                                      THEN {d \in ClipFiles : seenUnl[<<resq[k].job, d>>]}
                                      ELSE @]
    /\ UNCHANGED <<ent, idem, pend, bal, landed, req, seenUnl, firstFinal,
                   submits, newWrites, expired,
                   spent, nonUnlockVars>>

\* -------------------------------------------------------------- job records
\* JOB_STATUS, and the part of JOB_STAGE the model uses.
JobStatuses == {"QUEUED", "RUNNING", "SUCCEEDED", "FAILED"}
NoStatuses == {}

TerminalStatuses == {"SUCCEEDED", "FAILED"}
JobStages == {"DOWNLOAD", "RENDER", "DONE"}

\* A JobRecord is a JSON object; a field the object does not have is "unset"
\* (progress: the empty sequence).  NoUpdates is the object {}.
NoUpdates ==
    [status |-> "unset", stage |-> "unset", progress |-> <<>>, error |-> "unset",
     r2_prefix |-> "unset", nosana_run_id |-> "unset", start_error |-> "unset",
     market_cache |-> "unset"]

JobFields == DOMAIN NoUpdates

IsUnset(data, f) == data[f] = NoUpdates[f]

\* { ...current, ...updates }
Merge(current, updates) ==
    [f \in JobFields |-> IF IsUnset(updates, f) THEN current[f] ELSE updates[f]]

\* The value under the job's key: missing, or a JobRecord.
NoJob == [present |-> FALSE, data |-> NoUpdates]
StoredNowhere(data) == [present |-> FALSE, data |-> data]
Stored(data) == [present |-> TRUE, data |-> data]

\* store.update is a get followed by a set: a writer that has a merge to do
\* first takes its snapshot (await this.get) and later writes the merged
\* object (await this.set); `next` is where the writer continues afterwards.
BeginUpdate(w, job, updates, next, code) ==
    [w EXCEPT !.pc = "updGet", !.job = job, !.upd = updates, !.next = next,
              !.code = code]
TakeSnapshot(w) == [w EXCEPT !.pc = "updSet", !.snap = jobs[w.job].data]
Written(w) == Stored(Merge(w.snap, w.upd))
\* The handler goes on; the locals of the finished update are dropped.
AfterSet(w) == [w EXCEPT !.pc = w.next, !.upd = NoUpdates, !.snap = NoUpdates]

\* data.status ?? JOB_STATUS.QUEUED
StatusOf(data) == IF IsUnset(data, "status") THEN "QUEUED" ELSE data.status

IdleWriter ==
    [pc |-> "idle", job |-> "-", upd |-> NoUpdates, snap |-> NoUpdates,
     next |-> "-", code |-> 0]

\* ------------------------------------------------------- POST /api/jobs
QueuedRecord ==
    [NoUpdates EXCEPT !.status = "QUEUED", !.stage = "DOWNLOAD", !.progress = <<0>>]

CreateJob(job) ==
    /\ creator.pc = "idle"
    /\ ~jobs[job].present
    /\ jobs' = [jobs EXCEPT ![job] = Stored(QueuedRecord)]
    /\ creator' = [creator EXCEPT !.pc = "cache", !.job = job]
    /\ UNCHANGED <<starter, cb, obs, regressed, worker, unlockVars, authVars,
                   clipVars, topupVars,
                   fabricVars>>

FetchMarketCache(ok) ==
    /\ creator.pc = "cache"
    /\ creator' = IF ok
                  THEN BeginUpdate(creator, creator.job,
                                   [NoUpdates EXCEPT !.market_cache = "info"],
                                   "deploy", 0)
                  ELSE [creator EXCEPT !.pc = "deploy"]
    /\ UNCHANGED <<jobs, starter, cb, obs, regressed, worker, unlockVars, authVars,
                   clipVars, topupVars,
                   fabricVars>>

DispatchFailedErrorOnly(message) == [NoUpdates EXCEPT !.error = message]

\* { status: JOB_STATUS.FAILED, error: message }
DispatchFailed(message) ==
    [NoUpdates EXCEPT !.status = "FAILED", !.error = message]

CreateDeployment(ok) ==
    /\ creator.pc = "deploy"
    /\ creator' = IF ok
                  THEN BeginUpdate(creator, creator.job,
                                   [NoUpdates EXCEPT !.nosana_run_id = "run"],
                                   "timer", 200)
                  ELSE BeginUpdate(creator, creator.job, DispatchFailed("message"),
                                   "done", 502)
    /\ UNCHANGED <<jobs, starter, cb, obs, regressed, worker, unlockVars, authVars,
                   clipVars, topupVars,
                   fabricVars>>

\* startDeployment returns null or the error message; it never throws.
StartOutcomes == {"null", "message"}

TimerStartDeployment(startError) ==
    /\ creator.pc = "timer"
    /\ creator' = IF startError # "null"
                  THEN BeginUpdate(creator, creator.job,
                                   [NoUpdates EXCEPT !.start_error = startError],
                                   "done", creator.code)
                  ELSE [creator EXCEPT !.pc = "done"]
    /\ UNCHANGED <<jobs, starter, cb, obs, regressed, worker, unlockVars, authVars,
                   clipVars, topupVars,
                   fabricVars>>

CreatorUpdateGet ==
    /\ creator.pc = "updGet"
    /\ creator' = TakeSnapshot(creator)
    /\ UNCHANGED <<jobs, starter, cb, obs, regressed, worker, unlockVars, authVars,
                   clipVars, topupVars,
                   fabricVars>>

CreatorUpdateSet ==
    /\ creator.pc = "updSet"
    /\ jobs' = [jobs EXCEPT ![creator.job] = Written(creator)]
    /\ creator' = AfterSet(creator)
    /\ UNCHANGED <<starter, cb, obs, regressed, worker, unlockVars, authVars,
                   clipVars, topupVars,
                   fabricVars>>

\* ------------------------------------------------ POST /api/jobs/:jobId/start
StartGet(job) ==
    /\ starter.pc = "idle"
    /\ starter' = IF ~jobs[job].present
                  THEN [starter EXCEPT !.pc = "done", !.job = job, !.code = 404]
                  ELSE IF IsUnset(jobs[job].data, "nosana_run_id")
                  THEN [starter EXCEPT !.pc = "done", !.job = job, !.code = 409]
                  ELSE [starter EXCEPT !.pc = "start", !.job = job]
    /\ UNCHANGED <<jobs, creator, cb, obs, regressed, worker, unlockVars, authVars,
                   clipVars, topupVars,
                   fabricVars>>

StartDeployment(startError) ==
    /\ starter.pc = "start"
    /\ starter' = BeginUpdate(starter, starter.job,
                              [NoUpdates EXCEPT !.start_error = startError],
                              "done", 200)
    /\ UNCHANGED <<jobs, creator, cb, obs, regressed, worker, unlockVars, authVars,
                   clipVars, topupVars,
                   fabricVars>>

StarterUpdateGet ==
    /\ starter.pc = "updGet"
    /\ starter' = TakeSnapshot(starter)
    /\ UNCHANGED <<jobs, creator, cb, obs, regressed, worker, unlockVars, authVars,
                   clipVars, topupVars,
                   fabricVars>>

StarterUpdateSet ==
    /\ starter.pc = "updSet"
    /\ jobs' = [jobs EXCEPT ![starter.job] = Written(starter)]
    /\ starter' = AfterSet(starter)
    /\ UNCHANGED <<creator, cb, obs, regressed, worker, unlockVars, authVars,
                   clipVars, topupVars,
                   fabricVars>>

\* ------------------------------------------------ POST /api/callback/nosana
\* The job ids a request can carry: the ids of the store's jobs and one string
\* that isValidJobId rejects.
CallbackJobIds == Jobs \cup {"not-a-job-id"}
isValidJobId(id) == id \in Jobs

\* The bodies a callback can carry.  stage and progress are optional; a
\* progress is a number (here in a sequence of length one) or missing.
CallbackStatuses == JobStatuses \cup {"PAUSED"}
CallbackPayloads ==
    {[status |-> s, stage |-> "unset", progress |-> <<>>, error |-> "unset",
      r2_prefix |-> "unset"] : s \in {"QUEUED", "PAUSED"}}
    \cup {[status |-> "RUNNING", stage |-> "RENDER", progress |-> <<150>>,
           error |-> "unset", r2_prefix |-> "unset"],
          [status |-> "SUCCEEDED", stage |-> "BOGUS", progress |-> <<>>,
           error |-> "unset", r2_prefix |-> "prefix"],
          [status |-> "FAILED", stage |-> "unset", progress |-> <<>>,
           error |-> "message", r2_prefix |-> "unset"],
          [status |-> "RUNNING", stage |-> "unset", progress |-> <<-5>>,
           error |-> "unset", r2_prefix |-> "unset"]}

TakeSecond(a, b) == b

Min(a, b) == IF a < b THEN a ELSE b
Max(a, b) == IF a > b THEN a ELSE b

\* The updates object the handler builds from the body.
CallbackUpdates(payload) ==
    [NoUpdates EXCEPT
       !.status = payload.status,
       !.r2_prefix = payload.r2_prefix,
       !.error = payload.error,
       !.stage = IF payload.stage \in JobStages THEN payload.stage
                 ELSE IF payload.status \in TerminalStatuses THEN "DONE"
                 ELSE "unset",
       !.progress = IF payload.progress # <<>>
                    THEN <<Min(100, Max(0, payload.progress[1]))>>
                    ELSE IF payload.status \in TerminalStatuses THEN <<100>>
                    ELSE <<>>]

IdleCallback ==
    [pc |-> "idle", job |-> "-", upd |-> NoUpdates, snap |-> NoUpdates,
     next |-> "-", code |-> 0, asked |-> "unset", seen |-> "unset",
     bare |-> FALSE]

\* The body carries a terminal status, no valid stage and no numeric progress.
Bare(payload) ==
    /\ payload.status \in {"SUCCEEDED", "FAILED"}
    /\ payload.stage \notin JobStages
    /\ payload.progress = <<>>

\* The order of the path Queued -> Running -> (Succeeded | Failed).
Rank(status) ==
    IF status = "QUEUED" THEN 0 ELSE IF status = "RUNNING" THEN 1 ELSE 2

\* Moving from status a to status b stays on the path.
OnPath(a, b) == a = b \/ Rank(a) < Rank(b)

Respond(k, code) ==
    cb' = [cb EXCEPT ![k].pc = "done", ![k].code = code, ![k].upd = NoUpdates]

\* The worker's run so far: its callbacks arrive for a deployed job, one at a
\* time, with statuses along the path.
WorkerSends(job, payload) ==
    [last |-> payload.status,
     orderly |-> /\ worker.orderly
                 /\ job \in Jobs
                 /\ jobs[job].present
                 /\ ~IsUnset(jobs[job].data, "nosana_run_id")
                 /\ payload.status \in JobStatuses
                 /\ OnPath(worker.last, payload.status)
                 /\ \A q \in DOMAIN cb : cb[q].pc \in {"idle", "done"}]

CallbackStart(k, tokenOk, job, payload) ==
    /\ cb[k].pc = "idle"
    /\ \A q \in DOMAIN cb : q < k => cb[q].pc # "idle"
    /\ IF ~tokenOk THEN Respond(k, 401)
       ELSE IF ~isValidJobId(job) THEN Respond(k, 400)
       ELSE IF payload.status \notin JobStatuses THEN Respond(k, 400)
       ELSE cb' = [cb EXCEPT ![k].pc = "get", ![k].job = job,
                             ![k].asked = payload.status,
                             ![k].bare = Bare(payload),
                             ![k].upd = CallbackUpdates(payload)]
    /\ worker' = IF tokenOk THEN WorkerSends(job, payload) ELSE worker
    /\ UNCHANGED <<jobs, creator, starter, obs, regressed, unlockVars, authVars,
                   clipVars, topupVars,
                   fabricVars>>

FoundAlways(job) == TRUE

\* const data = await store.get(payload.job_id); if (!data) 404
Found(job) == jobs[job].present

CallbackGet(k) ==
    /\ cb[k].pc = "get"
    /\ IF ~Found(cb[k].job) THEN Respond(k, 404)
       ELSE cb' = [cb EXCEPT ![k] = [BeginUpdate(cb[k], cb[k].job, cb[k].upd,
                                                 "done", 200)
                                     EXCEPT !.seen = StatusOf(jobs[cb[k].job].data)]]
    /\ UNCHANGED <<jobs, creator, starter, obs, regressed, worker, unlockVars,
                   authVars, clipVars, topupVars,
                   fabricVars>>

CallbackUpdateGet(k) ==
    /\ cb[k].pc = "updGet"
    /\ cb' = [cb EXCEPT ![k] = TakeSnapshot(cb[k])]
    /\ UNCHANGED <<jobs, creator, starter, obs, regressed, worker, unlockVars,
                   authVars, clipVars, topupVars,
                   fabricVars>>

CallbackUpdateSet(k) ==
    /\ cb[k].pc = "updSet"
    /\ jobs' = [jobs EXCEPT ![cb[k].job] = Written(cb[k])]
    /\ cb' = [cb EXCEPT ![k] = AfterSet(cb[k])]
    /\ UNCHANGED <<creator, starter, obs, regressed, worker, unlockVars, authVars,
                   clipVars, topupVars,
                   fabricVars>>

\* ------------------------------------------------------ GET /api/jobs/:jobId
\* The body of the GET response: a field the record does not have is null
\* (progress: the empty sequence).
OrNull(data, f) ==
    IF ~IsUnset(data, f) THEN data[f] ELSE IF f = "progress" THEN <<>> ELSE "null"

JobView(data) ==
    [status |-> StatusOf(data),
     stage |-> OrNull(data, "stage"),
     progress |-> OrNull(data, "progress"),
     start_error |-> OrNull(data, "start_error"),
     nosana_run_id |-> OrNull(data, "nosana_run_id"),
     error |-> OrNull(data, "error")]

GetJob(job) ==
    /\ jobs[job].present
    /\ obs' = [obs EXCEPT ![job] = JobView(jobs[job].data).status]
    /\ regressed' = [regressed EXCEPT ![job] =
                        @ \/ (obs[job] # "unset"
                              /\ ~OnPath(obs[job], StatusOf(jobs[job].data)))]
    /\ UNCHANGED <<jobs, creator, starter, cb, worker, unlockVars, authVars,
                   clipVars, topupVars,
                   fabricVars>>

IdleJobs(nCb) ==
    /\ jobs = [j \in Jobs |-> NoJob]
    /\ creator = IdleWriter
    /\ starter = IdleWriter
    /\ cb = [k \in 1..nCb |-> IdleCallback]
    /\ obs = [j \in Jobs |-> "unset"]
    /\ regressed = [j \in Jobs |-> FALSE]
    /\ worker = [last |-> "QUEUED", orderly |-> TRUE]

\* ------------------------------------------------------------ wallet auth
Signers == {"W1", "W2"}
Nonces == {"N1"}

\* `KANGKLIP_AUTH:${walletAddress}:${nonce}:${timestamp}`
ChallengeOf(wallet, nonce) == <<"KANGKLIP_AUTH", wallet, nonce>>

\* The value under auth:nonce:<nonce>.  age "live": the key is there and
\* expires_at is ahead; "stale": the key is still there and expires_at has
\* passed; "gone": the key is missing.
NoNonce == [age |-> "gone", wallet |-> "-", challenge |-> <<>>]

\* A signature is made by a key over a message; the empty signer is a missing
\* or empty signature field.
NoSignature == [signer |-> "", msg |-> <<>>]
Signatures ==
    {NoSignature}
    \cup {[signer |-> s, msg |-> ChallengeOf(w, n)] :
             s \in Signers, w \in Signers, n \in Nonces}

verifyAnything(walletAddress, message, signature) == TRUE

\* nacl.sign.detached.verify(message, signature, publicKey)
verifySignature(walletAddress, message, signature) ==
    signature.signer = walletAddress /\ signature.msg = message

\* seenWallet is the wallet of the nonce payload the request read ("-": it read
\* none); late tells that the request arrived after a verify of the same nonce
\* had been answered 200.
IdleVerify ==
    [pc |-> "idle", wallet |-> "", nonce |-> "", signature |-> NoSignature,
     challenge |-> <<>>, code |-> 0, seenWallet |-> "-", late |-> FALSE]

\* await this.client.get(`auth:token:${token}`): the wallet the token is bound
\* to, or "" for null.
getAuthTokenWallet(token) ==
    IF \E t \in tokens : t.token = token
    THEN (CHOOSE t \in tokens : t.token = token).wallet
    ELSE ""

\* The x-auth-token gate: the wallet put in res.locals.authWallet, or "" when
\* the request is answered 401.  Token 0 is a missing header.
requireAuthToken(token) == IF token = 0 THEN "" ELSE getAuthTokenWallet(token)

\* The wallet the challenge of a nonce was issued to.
IssuedTo(nonce) == (CHOOSE i \in issued : i.nonce = nonce).wallet

\* POST /api/auth/challenge.  The nonce is 32 random bytes: one never handed
\* out before.
Challenge(wallet, nonce) ==
    /\ \A i \in issued : i.nonce # nonce
    /\ issued' = issued \cup {[nonce |-> nonce, wallet |-> wallet]}
    /\ nonces' = [nonces EXCEPT ![nonce] =
                     [age |-> "live", wallet |-> wallet,
                      challenge |-> ChallengeOf(wallet, nonce)]]
    /\ UNCHANGED <<tokens, ver, unlockVars, jobVars,
                   clipVars, topupVars,
                   fabricVars>>

\* Time passes: expires_at goes by, and the key's TTL (EX 300) removes it.
NonceAges(nonce) ==
    /\ nonces[nonce].age # "gone"
    /\ nonces' = [nonces EXCEPT ![nonce] =
                     IF @.age = "live" THEN [@ EXCEPT !.age = "stale"] ELSE NoNonce]
    /\ UNCHANGED <<tokens, ver, issued, unlockVars, jobVars,
                   clipVars, topupVars,
                   fabricVars>>

Answer(k, code) == ver' = [ver EXCEPT ![k].pc = "done", ![k].code = code]

VerifyStart(k, walletAddress, nonce, signature) ==
    /\ ver[k].pc = "idle"
    /\ \A q \in DOMAIN ver : q < k => ver[q].pc # "idle"
    /\ LET late == \E q \in DOMAIN ver : /\ ver[q].pc = "done" /\ ver[q].code = 200
                                          /\ ver[q].nonce = nonce
       IN
       IF walletAddress = "" \/ nonce = "" \/ signature.signer = ""
       THEN ver' = [ver EXCEPT ![k] = [@ EXCEPT !.pc = "done", !.code = 400,
                                         !.wallet = walletAddress, !.nonce = nonce,
                                         !.signature = signature, !.late = late]]
       ELSE ver' = [ver EXCEPT ![k] = [@ EXCEPT !.pc = "getNonce",
                                         !.wallet = walletAddress, !.nonce = nonce,
                                         !.signature = signature, !.late = late]]
    /\ UNCHANGED <<nonces, tokens, issued, unlockVars, jobVars,
                   clipVars, topupVars,
                   fabricVars>>

ExpiredNever(payload) == FALSE

\* expiresAt && Date.now() > expiresAt
Expired(payload) == payload.age = "stale"

GetAuthNonce(k) ==
    /\ ver[k].pc = "getNonce"
    /\ LET payload == nonces[ver[k].nonce] IN
       IF payload.age = "gone" THEN Answer(k, 400)
       ELSE IF payload.wallet # ver[k].wallet
       THEN ver' = [ver EXCEPT ![k].pc = "done", ![k].code = 400,
                               ![k].seenWallet = payload.wallet,
                               ![k].challenge = payload.challenge]
       ELSE IF Expired(payload)
       THEN ver' = [ver EXCEPT ![k].pc = "delExpired",
                               ![k].seenWallet = payload.wallet]
       ELSE IF ~verifySignature(ver[k].wallet, payload.challenge, ver[k].signature)
       THEN ver' = [ver EXCEPT ![k].pc = "done", ![k].code = 401,
                               ![k].seenWallet = payload.wallet,
                               ![k].challenge = payload.challenge]
       ELSE ver' = [ver EXCEPT ![k].pc = "setToken",
                               ![k].seenWallet = payload.wallet,
                               ![k].challenge = payload.challenge]
    /\ UNCHANGED <<nonces, tokens, issued, unlockVars, jobVars,
                   clipVars, topupVars,
                   fabricVars>>

DeleteKeepsNonce(payload) == payload

\* await this.client.del(key)
Deleted(payload) == NoNonce

DeleteExpiredNonce(k) ==
    /\ ver[k].pc = "delExpired"
    /\ nonces' = [nonces EXCEPT ![ver[k].nonce] = Deleted(@)]
    /\ Answer(k, 400)
    /\ UNCHANGED <<tokens, issued, unlockVars, jobVars,
                   clipVars, topupVars,
                   fabricVars>>

\* The token is 32 random bytes; the model names it after the request that
\* minted it.
SetAuthToken(k) ==
    /\ ver[k].pc = "setToken"
    /\ tokens' = tokens \cup {[token |-> k, wallet |-> ver[k].wallet]}
    /\ ver' = [ver EXCEPT ![k].pc = "delNonce"]
    /\ UNCHANGED <<nonces, issued, unlockVars, jobVars,
                   clipVars, topupVars,
                   fabricVars>>

DeleteAuthNonce(k) ==
    /\ ver[k].pc = "delNonce"
    /\ nonces' = [nonces EXCEPT ![ver[k].nonce] = Deleted(@)]
    /\ Answer(k, 200)
    /\ UNCHANGED <<tokens, issued, unlockVars, jobVars,
                   clipVars, topupVars,
                   fabricVars>>

IdleAuth(nVer) ==
    /\ nonces = [n \in Nonces |-> NoNonce]
    /\ tokens = {}
    /\ ver = [k \in 1..nVer |-> IdleVerify]
    /\ issued = {}

\* -------------------------------------------------------- per-job clip routes
\* The clip files a request can name: the files of the manifest and one file
\* the manifest does not list.
RequestedFiles == ClipFiles \cup {"x.mp4"}

\* manifest.clips[*].file of the job's r2 prefix
Manifest(job) == ClipFiles

\* job_token of the job's record, and the x-job-token headers a request can
\* carry ("" is a missing header).
JobToken(job) == "token-of-job"
HeaderTokens == {"", "guess", "token-of-job"}

AnyTokenValid(token, job) == TRUE

\* !(!token || token !== data.job_token)
TokenValid(token, job) == token # "" /\ token = JobToken(job)

\* requireJobToken: 0 when next() is called, else the status of the refusal.
requireJobToken(job, token) ==
    IF ~jobs[job].present THEN 404
    ELSE IF ~TokenValid(token, job) THEN 401
    ELSE 0

\* The ghost kept with a refused request: its job existed and its token was bad.
\* A refused unlock request also keeps the unlock_request_id of its body ("" is
\* a body without a string unlock_request_id).
GateOf(job, token) ==
    IF jobs[job].present /\ ~(token # "" /\ token = JobToken(job))
    THEN "badToken" ELSE "refused"

\* allowed.has(clipFile) in resolveClipKey and streamClip
Allowed(job, clipFile) == clipFile \in Manifest(job)

AlwaysReady(data) == 0

\* The checks of resolveClipKey and streamClip before the manifest is loaded.
JobReady(data) ==
    IF data.status # "SUCCEEDED" THEN 409
    ELSE IF IsUnset(data, "r2_prefix") THEN 500
    ELSE 0

ClipRoutes == {"preview", "download", "stream"}

IdleClip ==
    [pc |-> "idle", route |-> "-", job |-> "-", clip |-> "-", gate |-> "none",
     code |-> 0, body |-> "-", did |-> {}, ready |-> FALSE]

Reply(k, code, body) ==
    clipq' = [clipq EXCEPT ![k].pc = "done", ![k].code = code, ![k].body = body]

\* requireJobToken, then the handler up to its call of loadManifest.
ClipStart(k, route, job, clipFile, token) ==
    /\ clipq[k].pc = "idle"
    /\ \A q \in DOMAIN clipq : q < k => clipq[q].pc # "idle"
    /\ LET refusal == requireJobToken(job, token)
           notReady == JobReady(jobs[job].data)
           c == [clipq[k] EXCEPT !.route = route, !.job = job, !.clip = clipFile]
       IN
       IF refusal # 0
       THEN clipq' = [clipq EXCEPT ![k] =
                        [@ EXCEPT !.pc = "done", !.code = refusal, !.body = "detail",
                                  !.route = route, !.gate = GateOf(job, token)]]
       ELSE IF notReady # 0
       THEN clipq' = [clipq EXCEPT ![k] =
                        [c EXCEPT !.pc = "done", !.code = notReady, !.body = "detail",
                                  !.gate = "ok"]]
       ELSE clipq' = [clipq EXCEPT ![k] =
                        [c EXCEPT !.pc = "manifest", !.gate = "ok", !.ready = TRUE]]
    /\ UNCHANGED <<unlockVars, jobVars, authVars, topupVars,
                   fabricVars>>

\* await loadManifest (it can throw) and the membership check.
ClipLoadManifest(k, ok) ==
    /\ clipq[k].pc = "manifest"
    /\ LET c == [clipq[k] EXCEPT !.did = @ \cup {"manifest"}] IN
       IF ~ok
       THEN clipq' = [clipq EXCEPT ![k] =
                        [c EXCEPT !.pc = "done", !.code = 502, !.body = "detail"]]
       ELSE IF ~Allowed(c.job, c.clip)
       THEN clipq' = [clipq EXCEPT ![k] =
                        [c EXCEPT !.pc = "done", !.code = 404, !.body = "detail"]]
       ELSE clipq' = [clipq EXCEPT ![k] =
                        [c EXCEPT !.pc = IF c.route = "download" THEN "check"
                                         ELSE IF c.route = "preview" THEN "sign"
                                         ELSE "stream"]]
    /\ UNCHANGED <<unlockVars, jobVars, authVars, topupVars,
                   fabricVars>>

DownloadAlways(unlocked) == TRUE

\* if (!unlocked) return res.status(403).json({ error: "locked" })
MayDownload(unlocked) == unlocked

\* download: await store.isClipUnlocked
ClipCheckUnlocked(k) ==
    /\ clipq[k].pc = "check"
    /\ IF MayDownload(ent[<<clipq[k].job, clipq[k].clip>>])
       THEN clipq' = [clipq EXCEPT ![k].pc = "sign", ![k].did = @ \cup {"unlocked"}]
       ELSE Reply(k, 403, "locked")
    /\ UNCHANGED <<unlockVars, jobVars, authVars, topupVars,
                   fabricVars>>

\* preview and download: await signObjectUrl (it can throw)
ClipSign(k, ok) ==
    /\ clipq[k].pc = "sign"
    /\ clipq' = [clipq EXCEPT ![k] =
                   [@ EXCEPT !.pc = "done", !.did = @ \cup {"sign"},
                             !.code = IF ok THEN 200 ELSE 502,
                             !.body = IF ok THEN "url" ELSE "detail"]]
    /\ UNCHANGED <<unlockVars, jobVars, authVars, topupVars,
                   fabricVars>>

\* clip stream: await getObjectStream (it can throw, or come without a body)
ClipStream(k, ok) ==
    /\ clipq[k].pc = "stream"
    /\ clipq' = [clipq EXCEPT ![k] =
                   [@ EXCEPT !.pc = "done", !.did = @ \cup {"stream"},
                             !.code = IF ok THEN 200 ELSE 502,
                             !.body = IF ok THEN "bytes" ELSE "detail"]]
    /\ UNCHANGED <<unlockVars, jobVars, authVars, topupVars,
                   fabricVars>>

\* The unlock route from its two gates to its first store read: requireJobToken,
\* requireAuthToken, the status, unlock_request_id and r2 prefix checks,
\* loadManifest and the membership check.  Nothing these steps read is written
\* by another request of this part, so they are taken in one step.
MissingPrefixNever(data) == FALSE

\* const r2Prefix = data.r2_prefix; if (!r2Prefix) 500
MissingPrefix(data) == IsUnset(data, "r2_prefix")

UnlockRefusal(rid, job, clipFile, token, authToken, manifestOk) ==
    IF requireJobToken(job, token) # 0 THEN requireJobToken(job, token)
    ELSE IF requireAuthToken(authToken) = "" THEN 401
    ELSE IF jobs[job].data.status # "SUCCEEDED" THEN 409
    ELSE IF rid = "" THEN 400
    ELSE IF MissingPrefix(jobs[job].data) THEN 500
    ELSE IF ~manifestOk THEN 502
    ELSE IF clipFile \notin Manifest(job) THEN 404
    ELSE 0

GatedUnlock(r, rid, job, clipFile, token, authToken, manifestOk) ==
    /\ req[r].pc = "idle"
    /\ \A q \in DOMAIN req : q < r => req[q].pc # "idle"
    /\ LET refusal == UnlockRefusal(rid, job, clipFile, token, authToken, manifestOk)
       IN
       IF refusal # 0
       THEN /\ req' = [req EXCEPT ![r] =
                         [IdleReq EXCEPT !.pc = "done", !.resp = Detail(refusal),
                                         !.gate = GateOf(job, token),
                                         !.rid = rid]]
            /\ UNCHANGED <<ent, idem, pend, bal, landed, resq, seenUnl, firstFinal,
                           submits, newWrites, expired, spent, nonUnlockVars>>
       ELSE StartUnlock(r, rid, job, clipFile, requireAuthToken(authToken))

\* The results route: requireJobToken, the status and r2 prefix checks and
\* loadManifest, then the reads of the unlock states.
GatedResults(k, job, token, manifestOk) ==
    /\ resq[k].pc = "idle"
    /\ \A q \in DOMAIN resq : q < k => resq[q].pc # "idle"
    /\ LET refusal == IF requireJobToken(job, token) # 0
                      THEN requireJobToken(job, token)
                      ELSE IF JobReady(jobs[job].data) # 0
                      THEN JobReady(jobs[job].data)
                      ELSE IF ~manifestOk THEN 502 ELSE 0
       IN
       IF refusal # 0
       THEN /\ resq' = [resq EXCEPT ![k] =
                          [IdleResq EXCEPT !.pc = "done", !.code = refusal,
                                           !.gate = GateOf(job, token)]]
            /\ UNCHANGED <<ent, idem, pend, bal, landed, req, seenUnl, firstFinal,
                           submits, newWrites, expired, spent, nonUnlockVars>>
       ELSE ResultsStart(k, job)

IdleClips(n) == clipq = [k \in 1..n |-> IdleClip]

\* The records a job's key can hold when clip requests arrive.
ClipJobRecords ==
    {NoJob,
     Stored(QueuedRecord),
     Stored([QueuedRecord EXCEPT !.status = "SUCCEEDED", !.stage = "DONE",
                                 !.progress = <<100>>, !.nosana_run_id = "run"]),
     Stored([QueuedRecord EXCEPT !.status = "SUCCEEDED", !.stage = "DONE",
                                 !.progress = <<100>>, !.nosana_run_id = "run",
                                 !.r2_prefix = "prefix"])}

\* ------------------------------------------------------------ topup confirm
TopupSignatures == {"S1"}

\* What fetchParsedTransaction and the checks on its result can find.
TxStates == {"missing", "failed", "otherProgram", "ok"}

IdleTopupReq ==
    [pc |-> "idle", wallet |-> "", signature |-> "", code |-> 0,
     credited |-> FALSE, new_balance |-> 0, chainAt |-> <<>>]

Conclude(k, code) == tq' = [tq EXCEPT ![k].pc = "done", ![k].code = code]

\* requireAuthToken and the validation of the body.
TopupStart(k, authToken, signature) ==
    /\ tq[k].pc = "idle"
    /\ \A q \in DOMAIN tq : q < k => tq[q].pc # "idle"
    /\ LET authWallet == requireAuthToken(authToken)
           t == [tq[k] EXCEPT !.wallet = authWallet, !.signature = signature]
       IN
       IF authWallet = ""
       THEN tq' = [tq EXCEPT ![k] = [t EXCEPT !.pc = "done", !.code = 401]]
       ELSE IF signature = ""
       THEN tq' = [tq EXCEPT ![k] = [t EXCEPT !.pc = "done", !.code = 400]]
       ELSE tq' = [tq EXCEPT ![k] = [t EXCEPT !.pc = "has"]]
    /\ UNCHANGED <<marker, chainTx, marks, unlockVars, jobVars, authVars, clipVars,
                   fabricVars>>

\* const already = await store.hasTopupSignature(signature)
HasTopupSignature(k) ==
    /\ tq[k].pc = "has"
    /\ tq' = [tq EXCEPT ![k].pc = IF marker[tq[k].signature] THEN "credits"
                                  ELSE "fetchTx"]
    /\ UNCHANGED <<marker, chainTx, marks, unlockVars, jobVars, authVars, clipVars,
                   fabricVars>>

AnyProgram(tx) == TRUE

\* An outer or inner instruction of the transaction names the credits program.
hasProgramInstruction(tx) == tx # "otherProgram"

\* await fetchParsedTransaction, tx.meta.err, hasProgramInstruction
FetchParsedTransaction(k) ==
    /\ tq[k].pc = "fetchTx"
    /\ LET tx == chainTx[tq[k].signature] IN
       IF tx = "missing" THEN Conclude(k, 404)
       ELSE IF tx = "failed" THEN Conclude(k, 400)
       ELSE IF ~hasProgramInstruction(tx) THEN Conclude(k, 400)
       ELSE tq' = [tq EXCEPT ![k].pc = "mark"]
    /\ UNCHANGED <<marker, chainTx, marks, unlockVars, jobVars, authVars, clipVars,
                   fabricVars>>

MarkAlways(present) == TRUE

\* SET topup:tx:<signature> "1" NX answers OK when the key was absent.
Marked(present) == ~present

\* const marked = await store.markTopupSignature(signature)
MarkTopupSignature(k) ==
    /\ tq[k].pc = "mark"
    /\ LET sig == tq[k].signature IN
       IF Marked(marker[sig])
       THEN /\ marker' = [marker EXCEPT ![sig] = TRUE]
            /\ marks' = [marks EXCEPT ![sig] = @ + 1]
       ELSE UNCHANGED <<marker, marks>>
    /\ tq' = [tq EXCEPT ![k].pc = "credits"]
    /\ UNCHANGED <<chainTx, unlockVars, jobVars, authVars, clipVars,
                   fabricVars>>

\* const credits = await fetchOnchainCredits(authWallet);
\* return res.json({ credited: true, new_balance: credits })
TopupFetchCredits(k) ==
    /\ tq[k].pc = "credits"
    /\ tq' = [tq EXCEPT ![k] = [@ EXCEPT !.pc = "done", !.code = 200,
                                         !.credited = TRUE,
                                         !.new_balance = bal[tq[k].wallet],
                                         !.chainAt = bal]]
    /\ UNCHANGED <<marker, chainTx, marks, unlockVars, jobVars, authVars, clipVars,
                   fabricVars>>

\* The chain: a submitted transaction gets processed (it succeeds, fails, or
\* turns out to call another program), and the credits of a wallet grow when
\* its payment is processed.
TxConfirmed(signature, outcome) ==
    /\ chainTx[signature] = "missing"
    /\ chainTx' = [chainTx EXCEPT ![signature] = outcome]
    /\ UNCHANGED <<marker, tq, marks, unlockVars, jobVars, authVars, clipVars,
                   fabricVars>>

CreditsArrive(w) ==
    /\ bal[w] < MaxBal
    /\ bal' = [bal EXCEPT ![w] = @ + 1]
    /\ UNCHANGED <<ent, idem, pend, landed, req, resq, seenUnl, firstFinal,
                   submits, newWrites, expired, spent, nonUnlockVars>>

IdleTopup(n) ==
    /\ marker = [sig \in TopupSignatures |-> FALSE]
    /\ tq = [k \in 1..n |-> IdleTopupReq]
    /\ chainTx = [sig \in TopupSignatures |-> "missing"]
    /\ marks = [sig \in TopupSignatures |-> 0]

\* The auth tokens of two wallets, as two successful verifies leave them.
MintedTokens == {[token |-> 1, wallet |-> "W1"], [token |-> 2, wallet |-> "W2"]}

\* --------------------------------------------------------- startDeployment
\* One deployment of the fabric and the startDeployment calls made for it (the
\* start timer of POST /api/jobs, POST /api/jobs/:jobId/start).  Every await
\* of a call is a step; a fabric call either resolves or rejects.
MaxAttempts == 30

DeploymentStatuses == {"DRAFT", "STARTING", "RUNNING", "STOPPED"}

StatusRank == [DRAFT |-> 0, STARTING |-> 1, RUNNING |-> 2, STOPPED |-> 3]

\* A call: polls counts the gets of the loop, starts the deployment.start()
\* invocations, sawStarted is set when a get of the loop returned STARTING or
\* RUNNING, rejected when a fabric call of the call has rejected; result is
\* what the call returned ("threw" would be an exception leaving the call).
IdleStartCall ==
    [pc |-> "idle", attempt |-> 0, polls |-> 0, starts |-> 0,
     sawStarted |-> FALSE, rejected |-> FALSE, result |-> "none"]

\* catch (err) { return err instanceof Error ? err.message : String(err) }
Rejected(k) ==
    sd' = [sd EXCEPT ![k].pc = "done", ![k].result = "message",
                     ![k].rejected = TRUE]

StartedNever(status) == FALSE

\* deployment.status === "STARTING" || deployment.status === "RUNNING"
Started(status) == status \in {"STARTING", "RUNNING"}

\* for (let attempt = 0; attempt < 30; ...)
StartCall(k) ==
    /\ sd[k].pc = "idle"
    /\ \A q \in DOMAIN sd : q < k => sd[q].pc # "idle"
    /\ sd' = [sd EXCEPT ![k].pc = "get"]
    /\ UNCHANGED <<fabric, unlockVars, jobVars, authVars, clipVars, topupVars>>

\* const deployment = await nosana.deployments.get(deploymentId), in the loop
PollGet(k, ok) ==
    /\ sd[k].pc = "get"
    /\ IF ~ok THEN Rejected(k)
       ELSE IF Started(fabric)
       THEN sd' = [sd EXCEPT ![k].pc = "done", ![k].result = "null",
                             ![k].polls = @ + 1,
                             ![k].sawStarted = fabric \in {"STARTING", "RUNNING"}]
       ELSE sd' = [sd EXCEPT ![k].pc = IF fabric # "DRAFT" THEN "lastGet" ELSE "sleep",
                             ![k].polls = @ + 1,
                             ![k].sawStarted = fabric \in {"STARTING", "RUNNING"}]
    /\ UNCHANGED <<fabric, unlockVars, jobVars, authVars, clipVars, topupVars>>

\* await sleep(2000); attempt += 1; attempt < 30
Sleep(k) ==
    /\ sd[k].pc = "sleep"
    /\ sd' = [sd EXCEPT ![k].attempt = @ + 1,
                        ![k].pc = IF sd[k].attempt + 1 < MaxAttempts
                                  THEN "get" ELSE "lastGet"]
    /\ UNCHANGED <<fabric, unlockVars, jobVars, authVars, clipVars, topupVars>>

\* const deployment = await nosana.deployments.get(deploymentId), after the loop
LastGet(k, ok) ==
    /\ sd[k].pc = "lastGet"
    /\ IF ok THEN sd' = [sd EXCEPT ![k].pc = "start"] ELSE Rejected(k)
    /\ UNCHANGED <<fabric, unlockVars, jobVars, authVars, clipVars, topupVars>>

\* await deployment.start(); return null
InvokeStart(k, ok) ==
    /\ sd[k].pc = "start"
    /\ IF ok
       THEN /\ sd' = [sd EXCEPT ![k].pc = "done", ![k].result = "null",
                                ![k].starts = @ + 1]
            /\ fabric' = IF fabric = "DRAFT" THEN "STARTING" ELSE fabric
       ELSE /\ sd' = [sd EXCEPT ![k].pc = "done", ![k].result = "message",
                                ![k].starts = @ + 1, ![k].rejected = TRUE]
            /\ UNCHANGED fabric
    /\ UNCHANGED <<unlockVars, jobVars, authVars, clipVars, topupVars>>

\* The fabric moves the deployment on by itself.
FabricAdvances(status) ==
    /\ StatusRank[status] > StatusRank[fabric]
    /\ fabric' = status
    /\ UNCHANGED <<sd, unlockVars, jobVars, authVars, clipVars, topupVars>>

IdleStarts(n) ==
    /\ fabric = "DRAFT"
    /\ sd = [k \in 1..n |-> IdleStartCall]

\* ------------------------------------------------- JobStore.consumeCredit
\* The script runs atomically in the store: one call is one step.  A call is
\* kept in req with its arguments and its result; fresh marks the call that
\* took the charging branch.

\* The wrapper's result for a payload the script returned: unlocked true,
\* chargedCredits = payload.charged_credits ?? 0,
\* idempotency = payload.idempotency ?? "REPLAY".
ConsumeResult(p) ==
    IF p.kind = "pending"
    THEN Resp(0, "unlock", "-", "-", TRUE, 0, "REPLAY")
    ELSE Resp(0, "unlock", p.job, p.clip, TRUE, p.charged, p.idempotency)

\* { unlocked: false, reason: "INSUFFICIENT_CREDITS" }
InsufficientResult == Resp(0, "detail", "-", "-", FALSE, 0, "-")

\* redis.call("GET", entKey) == "1"
Unlocked(t) == ent[t]

ExceedsNever(spentNow, available) == FALSE

\* if (spent + 1) > available
Exceeds(spentNow, available) == spentNow + 1 > available

\* A call not yet made; a call keeps its availableCredits argument.
IdleCall == IdleReq @@ [available |-> 0]

ConsumeCredit(r, job, clip, wallet, rid, available) ==
    /\ req[r].pc = "idle"
    /\ \A q \in DOMAIN req : q < r => req[q].pc # "idle"
    /\ LET call == [IdleCall EXCEPT !.pc = "done", !.rid = rid, !.job = job,
                                    !.clip = clip, !.wallet = wallet,
                                    !.available = available]
           replay == IdemRec("final", job, clip, TRUE, 0, "REPLAY")
           new == IdemRec("final", job, clip, TRUE, 1, "NEW")
       IN
       IF idem[rid].kind # "none"
       THEN /\ req' = [req EXCEPT ![r] =
                         [call EXCEPT !.resp = ConsumeResult(idem[rid])]]
            /\ UNCHANGED <<ent, idem, spent>>
       ELSE IF Unlocked(<<job, clip>>)
       THEN /\ idem' = [idem EXCEPT ![rid] = replay]
            /\ req' = [req EXCEPT ![r] = [call EXCEPT !.resp = ConsumeResult(replay)]]
            /\ UNCHANGED <<ent, spent>>
       ELSE IF Exceeds(spent[wallet], available)
       THEN /\ req' = [req EXCEPT ![r] = [call EXCEPT !.resp = InsufficientResult]]
            /\ UNCHANGED <<ent, idem, spent>>
       ELSE /\ spent' = [spent EXCEPT ![wallet] = @ + 1]
            /\ ent' = [ent EXCEPT ![<<job, clip>>] = TRUE]
            /\ idem' = [idem EXCEPT ![rid] = new]
            /\ req' = [req EXCEPT ![r] = [call EXCEPT !.resp = ConsumeResult(new),
                                                      !.fresh = TRUE]]
    /\ UNCHANGED <<pend, bal, landed, resq, seenUnl, firstFinal, submits,
                   newWrites, expired, nonUnlockVars>>

\* --------------------------------------------------------- specification
NoFinal == [set |-> FALSE, resp |-> NoResp, job |-> "-", clip |-> "-", wallet |-> "-"]

\* An empty store, nReq unlock requests and nRes results requests not yet sent.
EmptyStore(nReq, nRes) ==
    /\ ent = [t \in Targets |-> FALSE]
    /\ idem = [i \in Rids |-> NoIdem]
    /\ pend = [i \in Rids |-> NoPend]
    /\ landed = {}
    /\ req = [r \in 1..nReq |-> IdleReq]
    /\ resq = [k \in 1..nRes |-> IdleResq]
    /\ seenUnl = [t \in Targets |-> FALSE]
    /\ firstFinal = [i \in Rids |-> NoFinal]
    /\ submits = [i \in Rids |-> 0]
    /\ newWrites = [i \in Rids |-> 0]
    /\ expired = [i \in Rids |-> 0]
    /\ spent = [w \in Wallets |-> 0]

\* No job, callback, verify, clip or topup request takes part.
NoJobsNoAuth ==
    IdleJobs(0) /\ IdleAuth(0) /\ IdleClips(0) /\ IdleTopup(0) /\ IdleStarts(0)

UnlockStep(r) ==
    \/ GetUnlockPending(r)
    \/ RecoverSetClip(r)
    \/ RecoverDeletePending(r)
    \/ RecoverSetIdem(r)
    \/ IsClipUnlocked(r)
    \/ FastSetIdem(r)
    \/ GetIdempotencyResult(r)
    \/ SetIdempotencyIfAbsent(r)
    \/ RereadIdempotency(r)
    \/ FundingCheck(r)
    \/ RefuseSetIdem(r)
    \/ ConsumeOnchainCredit(r)
    \/ RefetchCredits(r)
    \/ FailSetIdem(r)
    \/ SetUnlockPending(r)
    \/ SetClipUnlocked(r)
    \/ DeleteUnlockPending(r)
    \/ CommitSetIdem(r)

UnlockNext ==
    \/ \E r \in DOMAIN req, rid \in Rids, t \in Targets, w \in Wallets :
          StartUnlock(r, rid, t[1], t[2], w)
    \/ \E r \in DOMAIN req : UnlockStep(r)

\* Spec: concurrent unlock requests against the store and a chain with RPC faults.
Init ==
    /\ EmptyStore(MaxReq, 0)
    /\ NoJobsNoAuth
    /\ bal \in [Wallets -> 0..MaxBal]

Next == UnlockNext

Spec == Init /\ [][Next]_vars

\* SpecTTL: the same, with the idem keys expiring.
NextTTL ==
    \/ UnlockNext
    \/ \E rid \in Rids : ExpireIdem(rid)

SpecTTL == Init /\ [][NextTTL]_vars

\* SpecMono: unlock requests together with results requests.
InitMono ==
    /\ EmptyStore(MaxMonoReq, MaxResults)
    /\ NoJobsNoAuth
    /\ bal = [w \in Wallets |-> MaxBal]

NextMono ==
    \/ UnlockNext
    \/ \E k \in DOMAIN resq, j \in Jobs : ResultsStart(k, j)
    \/ \E k \in DOMAIN resq, c \in ClipFiles : ResultsRead(k, c)

SpecMono == InitMono /\ [][NextMono]_vars

\* SpecS4: scenario S4.  On-chain balance 1, an empty store, two unlock requests
\* for the same clip with distinct ids, and a chain that executes consume_credit
\* atomically.  The requests never meet a pending marker or an idem key of their
\* own id, so the recovery, replay and re-read steps are never enabled.
S4Rid(r) == IF r = 1 THEN "R1" ELSE "R2"

InitS4 ==
    /\ EmptyStore(2, 0)
    /\ NoJobsNoAuth
    /\ bal = [w \in Wallets |-> 1]

S4Step(r) ==
    \/ GetUnlockPending(r)
    \/ IsClipUnlocked(r)
    \/ FastSetIdem(r)
    \/ GetIdempotencyResult(r)
    \/ SetIdempotencyIfAbsent(r)
    \/ FundingCheck(r)
    \/ RefuseSetIdem(r)
    \/ ConsumeOnAtomicChain(r)
    \/ RefetchCredits(r)
    \/ FailSetIdem(r)
    \/ SetUnlockPending(r)
    \/ SetClipUnlocked(r)
    \/ DeleteUnlockPending(r)
    \/ CommitSetIdem(r)

NextS4 ==
    \/ \E r \in DOMAIN req, c \in ClipFiles :
          /\ \A q \in DOMAIN req : req[q].pc # "idle" => req[q].clip = c
          /\ StartUnlock(r, S4Rid(r), "j1", c, "W1")
    \/ \E r \in DOMAIN req : S4Step(r)

SpecS4 == InitS4 /\ [][NextS4]_vars

\* SpecJob: one job created through POST /api/jobs, a start request, worker
\* callbacks and status reads, interleaved at every await.
InitJob ==
    /\ EmptyStore(0, 0)
    /\ bal = [w \in Wallets |-> 0]
    /\ IdleJobs(MaxCb)
    /\ IdleAuth(0)
    /\ IdleClips(0)
    /\ IdleTopup(0)
    /\ IdleStarts(0)

NextJob ==
    \/ \E j \in Jobs : CreateJob(j)
    \/ \E ok \in BOOLEAN : FetchMarketCache(ok)
    \/ \E ok \in BOOLEAN : CreateDeployment(ok)
    \/ \E e \in StartOutcomes : TimerStartDeployment(e)
    \/ CreatorUpdateGet
    \/ CreatorUpdateSet
    \/ \E j \in Jobs : StartGet(j)
    \/ \E e \in StartOutcomes : StartDeployment(e)
    \/ StarterUpdateGet
    \/ StarterUpdateSet
    \/ \E k \in DOMAIN cb, tokenOk \in BOOLEAN, j \in CallbackJobIds,
           p \in CallbackPayloads : CallbackStart(k, tokenOk, j, p)
    \/ \E k \in DOMAIN cb : CallbackGet(k)
    \/ \E k \in DOMAIN cb : CallbackUpdateGet(k)
    \/ \E k \in DOMAIN cb : CallbackUpdateSet(k)
    \/ \E j \in Jobs : GetJob(j)

SpecJob == InitJob /\ [][NextJob]_vars

\* SpecStart: startDeployment calls for one deployment whose status the fabric
\* moves on meanwhile.  Every fabric call of a call settles and every sleep
\* ends: a call that can take a step eventually takes one.
InitStart ==
    /\ EmptyStore(0, 0)
    /\ bal = [w \in Wallets |-> 0]
    /\ IdleJobs(0)
    /\ IdleAuth(0)
    /\ IdleClips(0)
    /\ IdleTopup(0)
    /\ fabric = "DRAFT"
    /\ sd = [k \in 1..MaxStartCalls |-> IdleStartCall]

StartStep(k) ==
    \/ \E ok \in BOOLEAN : PollGet(k, ok)
    \/ Sleep(k)
    \/ \E ok \in BOOLEAN : LastGet(k, ok)
    \/ \E ok \in BOOLEAN : InvokeStart(k, ok)

NextStart ==
    \/ \E k \in DOMAIN sd : StartCall(k)
    \/ \E k \in DOMAIN sd : StartStep(k)
    \/ \E status \in DeploymentStatuses : FabricAdvances(status)

SpecStart ==
    /\ InitStart
    /\ [][NextStart]_vars
    /\ \A k \in 1..MaxStartCalls : WF_vars(StartStep(k))

\* SpecAuth: challenges and concurrent verify requests.
InitAuth ==
    /\ EmptyStore(0, 0)
    /\ bal = [w \in Wallets |-> 0]
    /\ IdleJobs(0)
    /\ IdleAuth(MaxVerify)
    /\ IdleClips(0)
    /\ IdleTopup(0)
    /\ IdleStarts(0)

NextAuth ==
    \/ \E w \in Signers, n \in Nonces : Challenge(w, n)
    \/ \E n \in Nonces : NonceAges(n)
    \/ \E k \in DOMAIN ver, w \in Signers \cup {""}, n \in Nonces \cup {""},
           sig \in Signatures : VerifyStart(k, w, n, sig)
    \/ \E k \in DOMAIN ver : GetAuthNonce(k)
    \/ \E k \in DOMAIN ver : DeleteExpiredNonce(k)
    \/ \E k \in DOMAIN ver : SetAuthToken(k)
    \/ \E k \in DOMAIN ver : DeleteAuthNonce(k)

SpecAuth == InitAuth /\ [][NextAuth]_vars

\* SpecClip: requests to the per-job routes of a job whose record is missing,
\* unfinished, finished without an r2 prefix, or finished with one.  No request
\* of this part writes the job record or the auth tokens.
ClipStore(nReq, nRes) ==
    /\ EmptyStore(nReq, nRes)
    /\ bal = [w \in Wallets |-> 1]
    /\ jobs \in [Jobs -> ClipJobRecords]
    /\ creator = IdleWriter
    /\ starter = IdleWriter
    /\ cb = [k \in 1..0 |-> IdleCallback]
    /\ obs = [j \in Jobs |-> "unset"]
    /\ regressed = [j \in Jobs |-> FALSE]
    /\ worker = [last |-> "QUEUED", orderly |-> TRUE]
    /\ nonces = [n \in Nonces |-> NoNonce]
    /\ tokens = {t \in MintedTokens : t.wallet \in Wallets}
    /\ ver = [k \in 1..0 |-> IdleVerify]
    /\ issued = {}
    /\ IdleClips(MaxClipReq)
    /\ IdleTopup(0)
    /\ IdleStarts(0)

InitClip == ClipStore(MaxClipUnlock, MaxResults)

ClipNext ==
    \/ \E k \in DOMAIN clipq, route \in ClipRoutes, j \in Jobs,
           c \in RequestedFiles, token \in HeaderTokens :
          ClipStart(k, route, j, c, token)
    \/ \E k \in DOMAIN clipq, ok \in BOOLEAN : ClipLoadManifest(k, ok)
    \/ \E k \in DOMAIN clipq : ClipCheckUnlocked(k)
    \/ \E k \in DOMAIN clipq, ok \in BOOLEAN : ClipSign(k, ok)
    \/ \E k \in DOMAIN clipq, ok \in BOOLEAN : ClipStream(k, ok)

GatedUnlockNext ==
    \/ \E r \in DOMAIN req, rid \in Rids \cup {""}, j \in Jobs, c \in RequestedFiles,
           token \in HeaderTokens, authToken \in 0..2, ok \in BOOLEAN :
          GatedUnlock(r, rid, j, c, token, authToken, ok)
    \/ \E r \in DOMAIN req : UnlockStep(r)

NextClip ==
    \/ ClipNext
    \/ GatedUnlockNext
    \/ \E k \in DOMAIN resq, j \in Jobs, token \in HeaderTokens, ok \in BOOLEAN :
          GatedResults(k, j, token, ok)
    \/ \E k \in DOMAIN resq, c \in ClipFiles : ResultsRead(k, c)

SpecClip == InitClip /\ [][NextClip]_vars

\* SpecPaths: the same job records, with two unlock requests, so that an unlock
\* request can meet the pending marker, the ClipUnlock key or the idempotency
\* record another one left, next to a preview, download or clip-stream request.
InitPaths == ClipStore(MaxGated, 0)

NextPaths == ClipNext \/ GatedUnlockNext

SpecPaths == InitPaths /\ [][NextPaths]_vars

\* SpecTopup: concurrent topup confirms by two wallets, with the transaction
\* being confirmed and credits arriving on chain in between.
InitTopup ==
    /\ EmptyStore(0, 0)
    /\ bal \in [Signers -> 0..1]
    /\ IdleJobs(0)
    /\ nonces = [n \in Nonces |-> NoNonce]
    /\ tokens = MintedTokens
    /\ ver = [k \in 1..0 |-> IdleVerify]
    /\ issued = {}
    /\ IdleClips(0)
    /\ IdleTopup(MaxTopup)
    /\ IdleStarts(0)

NextTopup ==
    \/ \E k \in DOMAIN tq, authToken \in 0..2, sig \in TopupSignatures \cup {""} :
          TopupStart(k, authToken, sig)
    \/ \E k \in DOMAIN tq : HasTopupSignature(k)
    \/ \E k \in DOMAIN tq : FetchParsedTransaction(k)
    \/ \E k \in DOMAIN tq : MarkTopupSignature(k)
    \/ \E k \in DOMAIN tq : TopupFetchCredits(k)
    \/ \E sig \in TopupSignatures, outcome \in TxStates \ {"missing"} :
          TxConfirmed(sig, outcome)
    \/ \E w \in Signers : CreditsArrive(w)

SpecTopup == InitTopup /\ [][NextTopup]_vars

\* SpecScript: consumeCredit calls on an empty store, with the idem keys
\* expiring.
InitScript ==
    /\ EmptyStore(MaxCalls, 0)
    /\ NoJobsNoAuth
    /\ bal = [w \in Wallets |-> MaxBal]

NextScript ==
    \/ \E r \in DOMAIN req, t \in Targets, w \in Wallets, rid \in Rids,
           available \in 0..MaxBal :
          ConsumeCredit(r, t[1], t[2], w, rid, available)
    \/ \E rid \in Rids : ExpireIdem(rid)

SpecScript == InitScript /\ [][NextScript]_vars

\* ------------------------------------------------------------------ claims
IsDone(r) == req[r].pc = "done"
Charged(r) == IsDone(r) /\ req[r].resp.kind = "unlock" /\ req[r].resp.charged = 1
ReportsUnlocked(r) == IsDone(r) /\ req[r].resp.kind = "unlock" /\ req[r].resp.unlocked
ReportsLocked(r) == IsDone(r) /\ req[r].resp.kind = "unlock" /\ ~req[r].resp.unlocked
DebitsOf(w) == {r \in landed : req[r].wallet = w}

\* C1: among unlock requests with pairwise distinct unlock_request_id for the
\* same (jobId, clipFile), at most one answers charged_credits=1 and at most one
\* consume_credit is confirmed for the clip.
C1_AtMostOneChargePerClip ==
    /\ \A r1, r2 \in DOMAIN req :
         (r1 # r2 /\ Charged(r1) /\ Charged(r2) /\ Tgt(r1) = Tgt(r2))
            => req[r1].rid = req[r2].rid
    /\ \A t \in Targets : Cardinality({r \in landed : Tgt(r) = t}) <= 1

\* C2: a set ClipUnlock key implies that a consume_credit submitted by an unlock
\* request for that same (jobId, clipFile) was executed and confirmed on chain.
C2_UnlockedImpliesCharge ==
    \A t \in Targets : ent[t] => \E r \in landed : Tgt(r) = t

C2_Witness ==
    \E r \in DOMAIN req : req[r].pc = "recDelPending" /\ ent[Tgt(r)]

\* C3: while the idem key of an unlock_request_id has not expired, at most one
\* attempt with that id gets past Begin: at most one consume_credit is submitted
\* and at most one final NEW IdempotencyResult is written for the id.
C3_SingleSubmitPerId ==
    \A i \in Rids : expired[i] = 0 => (submits[i] <= 1 /\ newWrites[i] <= 1)

C3_Witness ==
    \E r1, r2 \in DOMAIN req :
        /\ r1 # r2 /\ req[r1].rid = req[r2].rid
        /\ Charged(r1) /\ req[r1].fresh /\ IsDone(r2) /\ req[r2].afterFinal
        /\ expired[req[r1].rid] = 0 /\ submits[req[r1].rid] = 1

\* C4: an unlock request sent after the first final response of its id, with the
\* same id, job, clip and wallet, gets the same status and the same unlocked,
\* charged_credits and idempotency as that first final response.
SameOutcome(a, b) ==
    /\ a.status = b.status /\ a.kind = b.kind /\ a.unlocked = b.unlocked
    /\ a.charged = b.charged /\ a.idempotency = b.idempotency

C4_ReplayEqualsFirstFinal ==
    \A r \in DOMAIN req :
        (IsDone(r) /\ req[r].afterFinal)
            => SameOutcome(req[r].resp, firstFinal[req[r].rid].resp)

\* C5 (as claimed): per wallet, the charged_credits of all unlock responses add
\* up to no more than the credits the wallet held on chain.
C5_TotalChargedWithinHeld ==
    \A w \in Wallets :
        Cardinality({r \in DOMAIN req : Charged(r) /\ req[r].wallet = w})
            <= bal[w] + Cardinality(DebitsOf(w))

\* C5 (amended): every response charged_credits=1 of a request that itself
\* submitted the consume_credit is backed by that request's own confirmed debit
\* of its wallet, so such charges never exceed the debits nor the credits held.
C5_FreshChargesBacked ==
    /\ \A r \in DOMAIN req : (Charged(r) /\ req[r].fresh) => r \in landed
    /\ \A w \in Wallets :
         Cardinality({r \in DOMAIN req : Charged(r) /\ req[r].fresh /\ req[r].wallet = w})
            <= Cardinality(DebitsOf(w))

C5_Witness ==
    \E r1, r2 \in DOMAIN req :
        /\ r1 # r2 /\ req[r1].wallet = req[r2].wallet
        /\ Charged(r1) /\ req[r1].fresh /\ Charged(r2) /\ ~req[r2].fresh

\* C6: in scenario S4, when both requests have been answered exactly one of them
\* got 200 charged_credits=1, the other got 200 charged_credits=0 or 402, the
\* on-chain balance is 0 and ClipUnlock is set.
C6_S4Outcome ==
    /\ \A r \in DOMAIN req :
         req[r].pc \notin {"recSetClip", "recDelPending", "recSetIdem", "reread"}
    /\ (\A r \in DOMAIN req : IsDone(r)) =>
         /\ \E r \in DOMAIN req :
              /\ req[r].resp.status = 200 /\ Charged(r)
              /\ \A q \in DOMAIN req \ {r} :
                   \/ /\ req[q].resp.status = 200 /\ req[q].resp.kind = "unlock"
                      /\ req[q].resp.charged = 0
                   \/ req[q].resp.status = 402
         /\ \A w \in Wallets : bal[w] = 0
         /\ \A r \in DOMAIN req : ent[Tgt(r)]

C6_Witness ==
    /\ \A r \in DOMAIN req : IsDone(r)
    /\ \E r \in DOMAIN req : req[r].resp.status = 402

\* C7 (as claimed): once a response has reported unlocked=true for a target, no
\* unlock response sent later for it reports unlocked=false and no results
\* response sent later reports it locked.
C7_LaterResponsesMonotone ==
    /\ \A r \in DOMAIN req : (IsDone(r) /\ req[r].respAfter) => ~ReportsLocked(r)
    /\ \A k \in DOMAIN resq :
         resq[k].pc = "done" => resq[k].respAfter \cap resq[k].locked = {}

\* C7 (amended): once a response has reported unlocked=true for a target, its
\* ClipUnlock key stays set, no unlock request for it that starts afterwards
\* reports unlocked=false, and no results request that starts afterwards
\* reports it locked.
C7_LaterRequestsMonotone ==
    /\ \A t \in Targets : seenUnl[t] => ent[t]
    /\ \A r \in DOMAIN req : (IsDone(r) /\ req[r].after) => ~ReportsLocked(r)
    /\ \A k \in DOMAIN resq :
         resq[k].pc = "done" => resq[k].after \cap resq[k].locked = {}

C7_Witness ==
    /\ \E r \in DOMAIN req : IsDone(r) /\ req[r].after /\ ReportsUnlocked(r)
    /\ \E k \in DOMAIN resq : resq[k].pc = "done" /\ resq[k].after # {}

\* C8: a callback that finishes after reading a record whose status its own
\* status does not follow on the path Queued -> Running -> (Succeeded | Failed)
\* was answered 400.
C8_OffPathCallbackRejected ==
    \A k \in DOMAIN cb :
        (cb[k].pc = "done" /\ cb[k].seen # "unset"
           /\ ~OnPath(cb[k].seen, cb[k].asked))
        => cb[k].code = 400

\* C9: while the worker's callbacks arrive one at a time with statuses along
\* the path, no GET /api/jobs/:jobId returns a status behind, or a terminal
\* status other than, the one an earlier GET returned.
C9_ObservedStatusMonotone ==
    \A j \in Jobs : worker.orderly => ~regressed[j]

\* C10: at most one verify request succeeds with a given nonce, and at most one
\* token is minted from it.
C10_NonceMintsAtMostOneToken ==
    \A n \in Nonces :
        /\ Cardinality({k \in DOMAIN ver : ver[k].pc = "done" /\ ver[k].code = 200
                                             /\ ver[k].nonce = n}) <= 1
        /\ Cardinality({t \in tokens : ver[t.token].nonce = n}) <= 1

\* C11: a verify request that arrives after a verify of the same nonce was
\* answered 200 is answered 400 and mints no token.
C11_ReverifyRejected ==
    \A k \in DOMAIN ver :
        ver[k].late =>
            /\ ver[k].pc \in {"getNonce", "done"}
            /\ ver[k].pc = "done" => ver[k].code = 400
            /\ \A t \in tokens : t.token # k

C11_Witness ==
    \E k \in DOMAIN ver :
        /\ ver[k].late /\ ver[k].pc = "done"
        /\ ver[k].wallet = IssuedTo(ver[k].nonce)
        /\ verifySignature(ver[k].wallet, ChallengeOf(ver[k].wallet, ver[k].nonce),
                           ver[k].signature)

\* C12: every stored auth token was minted by a verify request, resolves
\* through the x-auth-token gate to the wallet the challenge of the request's
\* nonce was issued to, and that request's signature was made by that wallet
\* over the stored challenge text of the nonce.
C12_TokenBoundToChallengedSigner ==
    \A t \in tokens :
        LET k == t.token IN
        /\ k \in DOMAIN ver
        /\ ver[k].pc \in {"delNonce", "done"}
        /\ \E i \in issued : i.nonce = ver[k].nonce
        /\ requireAuthToken(k) = IssuedTo(ver[k].nonce)
        /\ ver[k].signature.signer = IssuedTo(ver[k].nonce)
        /\ ver[k].signature.msg = ChallengeOf(IssuedTo(ver[k].nonce), ver[k].nonce)
        /\ ver[k].challenge = ver[k].signature.msg
        /\ Cardinality({u \in tokens : u.token = k}) = 1

C12_Witness ==
    \E k \in DOMAIN ver :
        /\ ver[k].pc = "done" /\ ver[k].code = 200
        /\ requireAuthToken(k) = ver[k].wallet

\* C13: a verify request that finds the nonce issued to wallet W and carries
\* W's signature over its challenge, but another wallet_address, is answered
\* 401.
C13_OtherWalletAnswered401 ==
    \A k \in DOMAIN ver :
        (/\ ver[k].pc = "done"
         /\ ver[k].seenWallet \in Signers
         /\ ver[k].seenWallet # ver[k].wallet
         /\ verifySignature(ver[k].seenWallet, ver[k].challenge, ver[k].signature))
        => ver[k].code = 401

\* C18: when createDeployment has failed, the request's last write leaves the
\* record with status FAILED, the error message and no nosana_run_id, the
\* response is 502, and neither the start timer nor a start request ever
\* issues a start for the job.
C18_DispatchFailureRecorded ==
    /\ [](creator.code = 502 =>
            /\ creator.pc \in {"updGet", "updSet", "done"}
            /\ starter.pc \in {"idle", "done"}
            /\ starter.code \in {0, 404, 409})
    /\ [][(creator.pc = "updSet" /\ creator.code = 502 /\ creator'.pc = "done") =>
            LET v == JobView(jobs'[creator.job].data) IN
            /\ v.status = "FAILED"
            /\ v.error = "message"
            /\ v.nosana_run_id = "null"]_vars

C18_Witness ==
    /\ creator.pc = "done" /\ creator.code = 502
    /\ starter.pc = "done" /\ starter.code = 409

\* C19: the write of an accepted callback with a terminal status, no valid
\* stage and no numeric progress leaves a record that GET /api/jobs/:jobId
\* shows with that status, stage DONE, progress 100 and the callback's error
\* if it carried one.
C19_TerminalCallbackShown ==
    [][\A k \in DOMAIN cb :
         (cb[k].pc = "updSet" /\ cb'[k].pc = "done" /\ cb[k].bare) =>
            LET v == JobView(jobs'[cb[k].job].data) IN
            /\ cb'[k].code = 200
            /\ v.status = cb[k].asked
            /\ v.stage = "DONE"
            /\ v.progress = <<100>>
            /\ (cb[k].upd.error # "unset" => v.error = cb[k].upd.error)]_vars

C19_Witness ==
    \E k \in DOMAIN cb :
        /\ cb[k].pc = "done" /\ cb[k].code = 200 /\ cb[k].bare
        /\ cb[k].asked = "FAILED" /\ cb[k].seen = "RUNNING"
        /\ JobView(jobs[cb[k].job].data).error = "message"

\* C20: the progress of every stored job record is a number from 0 to 100.
C20_ProgressClamped ==
    \A j \in Jobs :
        jobs[j].present =>
            /\ Len(jobs[j].data.progress) = 1
            /\ jobs[j].data.progress[1] \in 0..100

C20_Witness ==
    \E j \in Jobs :
        /\ jobs[j].present /\ jobs[j].data.status = "RUNNING"
        /\ jobs[j].data.progress = <<100>> /\ jobs[j].data.stage = "RENDER"

\* C14: a request to the results, preview, download, clip-stream or unlock
\* route of an existing job whose x-job-token is missing or wrong is answered
\* 401 and has read no manifest, signed no URL, streamed no clip, written
\* nothing to the store and submitted nothing to the chain.
C14_JobTokenRequired ==
    /\ \A k \in DOMAIN clipq :
         clipq[k].gate = "badToken" =>
            clipq[k].pc = "done" /\ clipq[k].code = 401 /\ clipq[k].did = {}
    /\ \A k \in DOMAIN clipq : clipq[k].did # {} => clipq[k].gate = "ok"
    /\ \A k \in DOMAIN resq :
         resq[k].gate = "badToken" =>
            /\ resq[k].pc = "done" /\ resq[k].code = 401
            /\ resq[k].toRead = {} /\ resq[k].locked = {}
    /\ \A r \in DOMAIN req :
         req[r].gate = "badToken" =>
            /\ req[r].pc = "done" /\ req[r].resp.status = 401
            /\ r \notin landed /\ ~req[r].fresh
    /\ (\A r \in DOMAIN req : req[r].pc = "idle" \/ req[r].gate = "badToken") =>
         /\ \A t \in Targets : ~ent[t]
         /\ \A i \in Rids : idem[i] = NoIdem /\ pend[i] = NoPend /\ submits[i] = 0

C14_Witness ==
    /\ \E k \in DOMAIN clipq :
         /\ clipq[k].gate = "badToken" /\ clipq[k].route = "download"
         /\ \A j \in Jobs : JobReady(jobs[j].data) = 0
    /\ \E r \in DOMAIN req : req[r].gate = "badToken"
    /\ \E k \in DOMAIN resq : resq[k].gate = "badToken"

\* C15: a download request is answered 200, or gets as far as signing a URL,
\* only after it found ClipUnlock set for its clip; a request for a manifest
\* clip of a SUCCEEDED job that finds it not set is answered 403
\* {error: "locked"} and signs nothing.
C15_DownloadNeedsUnlock ==
    \A k \in DOMAIN clipq :
        clipq[k].route = "download" =>
            /\ (clipq[k].code = 200 \/ "sign" \in clipq[k].did) =>
                  /\ "unlocked" \in clipq[k].did
                  /\ ent[<<clipq[k].job, clipq[k].clip>>]
            /\ clipq[k].code = 200 => clipq[k].body = "url"
            /\ (/\ clipq[k].pc = "done" /\ clipq[k].ready
                /\ clipq[k].code \notin {404, 502}
                /\ "unlocked" \notin clipq[k].did) =>
                  /\ clipq[k].code = 403 /\ clipq[k].body = "locked"
                  /\ "sign" \notin clipq[k].did

C15_Witness ==
    \E k \in DOMAIN clipq :
        /\ clipq[k].route = "download" /\ clipq[k].pc = "done"
        /\ clipq[k].code = 200

\* C16: every 200 of the preview, download, clip-stream and unlock routes is
\* for a job that is SUCCEEDED with an r2 prefix and for a clip file listed in
\* the manifest.
C16_ManifestContainment ==
    /\ \A k \in DOMAIN clipq :
         (clipq[k].pc = "done" /\ clipq[k].code = 200) =>
            /\ clipq[k].clip \in Manifest(clipq[k].job)
            /\ jobs[clipq[k].job].present
            /\ jobs[clipq[k].job].data.status = "SUCCEEDED"
            /\ ~IsUnset(jobs[clipq[k].job].data, "r2_prefix")
    /\ \A r \in DOMAIN req :
         (req[r].pc = "done" /\ req[r].resp.status = 200) =>
            /\ req[r].clip \in Manifest(req[r].job)
            /\ jobs[req[r].job].present
            /\ jobs[req[r].job].data.status = "SUCCEEDED"
            /\ ~IsUnset(jobs[req[r].job].data, "r2_prefix")

C16_Witness ==
    /\ \E k \in DOMAIN clipq :
         clipq[k].pc = "done" /\ clipq[k].code = 200 /\ clipq[k].route = "preview"
    /\ \E r \in DOMAIN req :
         /\ req[r].pc = "done" /\ req[r].resp.status = 200
         /\ req[r].resp.idempotency = "REPLAY"

\* C17: the TopupSignature marker of a signature is written at most once and
\* stays set, and any two confirm calls with the same signature that read
\* unchanged on-chain balances answer credited:true with the same new_balance.
C17_ConfirmIdempotent ==
    /\ \A sig \in TopupSignatures :
         marks[sig] <= 1 /\ (marks[sig] = 1 => marker[sig])
    /\ \A k1, k2 \in DOMAIN tq :
         (/\ tq[k1].pc = "done" /\ tq[k1].code = 200
          /\ tq[k2].pc = "done" /\ tq[k2].code = 200
          /\ tq[k1].signature = tq[k2].signature
          /\ tq[k1].chainAt = tq[k2].chainAt) =>
            /\ tq[k1].credited /\ tq[k2].credited
            /\ tq[k1].new_balance = tq[k2].new_balance

\* C17 (amended): the TopupSignature marker of a signature is written at most
\* once, also under concurrent confirms, and is never cleared; every 200 of a
\* confirm call comes after the marker is set and carries credited:true and the
\* caller's own on-chain balance, so two calls with the same signature by the
\* same wallet that read unchanged balances answer the same new_balance.
C17_ConfirmIdempotentPerWallet ==
    /\ [](/\ \A sig \in TopupSignatures :
              marks[sig] <= 1 /\ (marks[sig] = 1 <=> marker[sig])
          /\ \A k \in DOMAIN tq :
              (tq[k].pc = "done" /\ tq[k].code = 200) =>
                 /\ marker[tq[k].signature] /\ tq[k].credited
                 /\ tq[k].new_balance = tq[k].chainAt[tq[k].wallet]
          /\ \A k1, k2 \in DOMAIN tq :
              (/\ tq[k1].pc = "done" /\ tq[k1].code = 200
               /\ tq[k2].pc = "done" /\ tq[k2].code = 200
               /\ tq[k1].signature = tq[k2].signature
               /\ tq[k1].wallet = tq[k2].wallet
               /\ tq[k1].chainAt = tq[k2].chainAt) =>
                 tq[k1].new_balance = tq[k2].new_balance)
    /\ [][\A sig \in TopupSignatures : marker[sig] => marker'[sig]]_vars

C17_Witness ==
    \E k1, k2 \in DOMAIN tq :
        /\ k1 # k2
        /\ tq[k1].pc = "done" /\ tq[k1].code = 200
        /\ tq[k2].pc = "done" /\ tq[k2].code = 200
        /\ tq[k1].signature = tq[k2].signature
        /\ tq[k1].wallet = tq[k2].wallet
        /\ tq[k1].chainAt = tq[k2].chainAt
        /\ marks[tq[k1].signature] = 1

\* C21: a callback that is answered 401, 400 or 404 writes no JobRecord: the
\* step that rejects it leaves every JobRecord as it was, a callback that finds
\* no JobRecord under its job_id is answered 404, only a callback with a
\* well-formed job_id and a known status reads the store, and a JobRecord
\* comes into being through POST /api/jobs only.
C21_RejectedCallbackWritesNothing ==
    /\ [](\A k \in DOMAIN cb :
            (cb[k].pc = "done" /\ cb[k].code # 200) =>
                cb[k].code \in {400, 401, 404} /\ cb[k].upd = NoUpdates)
    /\ [][\A k \in DOMAIN cb :
            cb'[k] # cb[k] =>
               /\ (cb'[k].pc = "done" /\ cb'[k].code \in {400, 401, 404}) =>
                     jobs' = jobs
               /\ (cb[k].pc = "get" /\ ~jobs[cb[k].job].present) =>
                     cb'[k].pc = "done" /\ cb'[k].code = 404 /\ jobs' = jobs
               /\ (cb[k].pc = "idle" /\ cb'[k].pc = "get") =>
                     isValidJobId(cb'[k].job) /\ cb'[k].asked \in JobStatuses]_vars
    /\ [][\A j \in Jobs :
            (~jobs[j].present /\ jobs'[j].present) =>
               creator.pc = "idle" /\ creator'.job = j]_vars

C21_Witness ==
    \E k1, k2 \in DOMAIN cb :
        /\ cb[k1].pc = "done" /\ cb[k1].code = 404
        /\ cb[k2].pc = "done" /\ cb[k2].code \in {400, 401}
        /\ \E j \in Jobs : jobs[j].present

\* C22: an unlock request that reads an UnlockPending marker of its
\* unlock_request_id with its own jobId and clipFile goes, before it reads
\* ClipUnlock or the IdempotencyResult, on to set ClipUnlock, delete the marker,
\* write a final REPLAY IdempotencyResult with charged_credits=0 and answer 200
\* unlocked=true charged_credits=0; none of these steps submits a transaction
\* or debits a wallet.
C22_PendingRecovery ==
    /\ [](\A r \in DOMAIN req :
            req[r].pc \in {"recSetClip", "recDelPending", "recSetIdem"} =>
                r \notin landed /\ ~req[r].fresh)
    /\ [][\A r \in DOMAIN req :
            LET q == req[r]
                matching == /\ pend[q.rid].present
                            /\ pend[q.rid].job = q.job
                            /\ pend[q.rid].clip = q.clip
            IN
            req'[r] # q =>
               /\ (q.pc = "getPending" /\ matching) =>
                     /\ req'[r].pc = "recSetClip"
                     /\ UNCHANGED <<ent, idem, pend>>
               /\ (q.pc = "getPending" /\ ~matching) => req'[r].pc = "isUnlocked"
               /\ q.pc = "recSetClip" =>
                     ent'[<<q.job, q.clip>>] /\ req'[r].pc = "recDelPending"
               /\ q.pc = "recDelPending" =>
                     ~pend'[q.rid].present /\ req'[r].pc = "recSetIdem"
               /\ q.pc = "recSetIdem" =>
                     /\ idem'[q.rid] = [kind |-> "final", job |-> q.job,
                                        clip |-> q.clip, unlocked |-> TRUE,
                                        charged |-> 0, idempotency |-> "REPLAY"]
                     /\ req'[r].pc = "done"
                     /\ req'[r].resp = [status |-> 200, kind |-> "unlock",
                                        job |-> q.job, clip |-> q.clip,
                                        unlocked |-> TRUE, charged |-> 0,
                                        idempotency |-> "REPLAY"]
               /\ q.pc \in {"getPending", "recSetClip", "recDelPending",
                             "recSetIdem"} =>
                     UNCHANGED <<submits, landed, bal>>]_vars

C22_Witness ==
    \E r \in DOMAIN req :
        /\ req[r].pc = "recSetIdem"
        /\ ent[Tgt(r)] /\ ~pend[req[r].rid].present
        /\ submits[req[r].rid] = 1

\* C23: a consume_credit of an unlock request that has been confirmed to the
\* handler and is not yet reflected in ClipUnlock has an UnlockPending marker
\* of the request's unlock_request_id for its jobId and clipFile.
C23_ConfirmedChargeHasMarker ==
    \A r \in landed :
        (/\ req[r].pc \in {"setPending", "setClip", "delPending", "setIdem"}
         /\ ~ent[Tgt(r)]) =>
            /\ pend[req[r].rid].present
            /\ pend[req[r].rid].job = req[r].job
            /\ pend[req[r].rid].clip = req[r].clip

\* C24: an unlock request that found no matching UnlockPending and the clip
\* still locked, and then reads the IdempotencyResult of its id, answers 409
\* when the record is pending and 200 with the stored payload when it is
\* final; the step changes no store key, submits nothing and debits nothing,
\* and the request has not reached the chain.
C24_StoredResultAnswered ==
    /\ [](\A r \in DOMAIN req :
            req[r].pc = "getIdem" => r \notin landed /\ ~req[r].fresh)
    /\ [][\A r \in DOMAIN req :
            LET q == req[r]
                cur == idem[q.rid]
            IN
            (q.pc = "getIdem" /\ req'[r] # q) =>
               /\ cur.kind = "pending" =>
                     /\ req'[r].pc = "done"
                     /\ req'[r].resp.status = 409
                     /\ req'[r].resp.kind = "detail"
               /\ cur.kind = "final" =>
                     /\ req'[r].pc = "done"
                     /\ req'[r].resp.status = 200
                     /\ req'[r].resp.kind = "unlock"
                     /\ req'[r].resp.job = cur.job
                     /\ req'[r].resp.clip = cur.clip
                     /\ req'[r].resp.unlocked = cur.unlocked
                     /\ req'[r].resp.charged = cur.charged
                     /\ req'[r].resp.idempotency = cur.idempotency
               /\ cur.kind = "none" => req'[r].pc = "setIfAbsent"
               /\ ~req'[r].fresh
               /\ UNCHANGED <<ent, idem, pend, submits, landed, bal>>]_vars

C24_Witness ==
    /\ \E r \in DOMAIN req :
         /\ req[r].pc = "done" /\ req[r].resp = Detail(409)
    /\ \E r \in DOMAIN req :
         /\ req[r].pc = "done" /\ req[r].afterFinal /\ ~req[r].fresh
         /\ req[r].resp.status = 200 /\ req[r].resp.kind = "unlock"
         /\ ~req[r].resp.unlocked /\ ~ent[Tgt(r)]

\* C25: a request that lost the set-if-absent of the pending IdempotencyResult
\* and re-reads the record answers 409 while the record is still pending and
\* the stored final result otherwise: no response is a 200 carrying the pending
\* record, and a request that is re-reading has not reached the chain.
C25_LoserNeverAnswersPending200 ==
    \A r \in DOMAIN req :
        /\ req[r].pc = "reread" => r \notin landed
        /\ req[r].pc = "done" =>
              ~(req[r].resp.status = 200 /\ req[r].resp.kind = "pending")

\* C26: an unlock request that reads on-chain credits below 1 at the funding
\* check goes on to replace the IdempotencyResult of its id by a final record
\* with unlocked=false, charged_credits=0, idempotency=NEW and answers 402; it
\* submits no transaction and leaves ClipUnlock and UnlockPending untouched.
C26_InsufficientCreditsRefused ==
    /\ [](\A r \in DOMAIN req :
            req[r].pc \in {"fetchCredits", "refuseSetIdem"} => r \notin landed)
    /\ [][\A r \in DOMAIN req :
            LET q == req[r] IN
            req'[r] # q =>
               /\ (q.pc = "fetchCredits" /\ bal[q.wallet] < 1) =>
                     /\ req'[r].pc = "refuseSetIdem"
                     /\ UNCHANGED <<ent, idem, pend, submits, landed, bal>>
               /\ (q.pc = "fetchCredits" /\ bal[q.wallet] >= 1) =>
                     req'[r].pc = "consume"
               /\ q.pc = "refuseSetIdem" =>
                     /\ idem'[q.rid] = [kind |-> "final", job |-> q.job,
                                        clip |-> q.clip, unlocked |-> FALSE,
                                        charged |-> 0, idempotency |-> "NEW"]
                     /\ req'[r].pc = "done"
                     /\ req'[r].resp.status = 402
                     /\ req'[r].resp.kind = "detail"
                     /\ UNCHANGED <<ent, pend, submits, landed, bal>>]_vars

C26_Witness ==
    \E r \in DOMAIN req :
        /\ req[r].pc = "done" /\ req[r].resp = Detail(402)
        /\ submits[req[r].rid] = 0
        /\ idem[req[r].rid].kind = "final" /\ ~idem[req[r].rid].unlocked
        /\ ~ent[Tgt(r)] /\ ~pend[req[r].rid].present

C28_UnlockedMeansOwnClipUnlocked ==
    \A r \in DOMAIN req :
        (/\ req[r].pc = "done" /\ req[r].resp.status = 200
         /\ req[r].resp.kind = "unlock" /\ req[r].resp.unlocked) => ent[Tgt(r)]

\* C29: an unlock request that is refused by the job-token or auth-token gate
\* or by the handler's checks of the job, the unlock_request_id, the r2 prefix
\* or the manifest is answered with the refusal in one step that changes no
\* ClipUnlock, IdempotencyResult, UnlockPending or WalletSpend key, debits no
\* wallet and submits nothing; only a request for a manifest clip of a
\* SUCCEEDED job with an r2 prefix, carrying an unlock_request_id and the token
\* of a wallet, enters the unlock state machine.
C29_RefusedUnlockChangesNothing ==
    /\ [](\A r \in DOMAIN req :
            req[r].gate # "none" =>
               /\ req[r].pc = "done" /\ req[r].resp.kind = "detail"
               /\ req[r].resp.status \in {400, 401, 404, 409, 500, 502}
               /\ r \notin landed /\ ~req[r].fresh)
    /\ [][\A r \in DOMAIN req :
            /\ (req[r].pc = "idle" /\ req'[r].gate # "none") =>
                  UNCHANGED <<ent, idem, pend, spent, bal, landed, submits>>
            /\ (req[r].pc = "idle" /\ req'[r].pc = "getPending") =>
                  /\ jobs[req'[r].job].present
                  /\ jobs[req'[r].job].data.status = "SUCCEEDED"
                  /\ ~IsUnset(jobs[req'[r].job].data, "r2_prefix")
                  /\ req'[r].rid \in Rids
                  /\ req'[r].clip \in Manifest(req'[r].job)
                  /\ req'[r].wallet \in Wallets]_vars

C29_Witness ==
    \E r1, r2 \in DOMAIN req :
        /\ req[r1].gate = "refused" /\ req[r1].resp = Detail(404)
        /\ \A j \in Jobs : JobReady(jobs[j].data) = 0
        /\ req[r2].pc = "done" /\ req[r2].resp.status = 200
        /\ req[r2].resp.charged = 1

\* C30 as stated: at most one consumeCredit call per (jobId, clipFile)
\* returns idempotency NEW.
C30_AtMostOneNewPerClip ==
    \A r1, r2 \in DOMAIN req :
        (/\ req[r1].pc = "done" /\ req[r2].pc = "done" /\ Tgt(r1) = Tgt(r2)
         /\ req[r1].resp.idempotency = "NEW"
         /\ req[r2].resp.idempotency = "NEW") => r1 = r2

\* C31: a consumeCredit call that finds no IdempotencyResult under its id,
\* the clip locked and WalletSpend(wallet) + 1 above its availableCredits
\* returns INSUFFICIENT_CREDITS and changes none of WalletSpend, ClipUnlock
\* and IdempotencyResult; no other call returns INSUFFICIENT_CREDITS.
C31_InsufficientWithoutMutation ==
    [][\A r \in DOMAIN req :
          LET c == req'[r]
              short == /\ idem[c.rid].kind = "none"
                       /\ ~ent[<<c.job, c.clip>>]
                       /\ spent[c.wallet] + 1 > c.available
          IN
          (req[r].pc = "idle" /\ c.pc = "done") =>
             /\ short =>
                   /\ c.resp.kind = "detail" /\ ~c.resp.unlocked /\ ~c.fresh
                   /\ UNCHANGED <<spent, ent, idem>>
             /\ c.resp.kind = "detail" => short]_vars

C31_Witness ==
    \E r \in DOMAIN req :
        /\ req[r].pc = "done" /\ req[r].resp = InsufficientResult
        /\ req[r].available = 1 /\ spent[req[r].wallet] = 1
        /\ ~ent[Tgt(r)] /\ idem[req[r].rid].kind = "none"

\* C32: a consumeCredit call that finds an IdempotencyResult under its id
\* returns the stored unlocked and chargedCredits with idempotency REPLAY and
\* changes no key.
C32_StoredOutcomeTaggedReplay ==
    [][\A r \in DOMAIN req :
          LET c == req'[r]
              stored == idem[c.rid]
          IN
          (req[r].pc = "idle" /\ c.pc = "done" /\ stored.kind # "none") =>
             /\ c.resp.unlocked = stored.unlocked
             /\ c.resp.charged = stored.charged
             /\ c.resp.idempotency = "REPLAY"
             /\ UNCHANGED <<spent, ent, idem>>]_vars

\* C33: WalletSpend(wallet) counts the credits the unlock endpoint has
\* debited: it equals the number of consume_credit submissions made by the
\* unlock requests of the wallet (each adds exactly 1, also when the
\* confirmation fails; replays, recoveries and rejected requests add nothing;
\* nothing subtracts).
C33_WalletSpendCountsSubmissions ==
    \A w \in Wallets : spent[w] = Sum(submits, Rids)

\* C34: an unlock request whose body lacks a string unlock_request_id is
\* answered 400, whatever its x-job-token and x-auth-token are.
C34_BodyValidatedFirst ==
    \A r \in DOMAIN req :
        (req[r].pc = "done" /\ req[r].rid = "") => req[r].resp = Detail(400)

\* C35: once a callback for the job has been acknowledged with 200, a write
\* of the dispatcher's market_cache, nosana_run_id or start_error update
\* (POST /api/jobs, its start timer, POST /api/jobs/:jobId/start) leaves the
\* stored status, stage, progress, r2_prefix and error as they were.
C35_CallbackFieldsSurviveDispatcherWrites ==
    [][LET Keeps(w, after) ==
               (/\ w.pc = "updSet" /\ after.pc # "updSet"
                /\ IsUnset(w.upd, "status") /\ IsUnset(w.upd, "error")
                /\ \E k \in DOMAIN cb :
                      cb[k].pc = "done" /\ cb[k].code = 200 /\ cb[k].job = w.job)
               => \A f \in {"status", "stage", "progress", "r2_prefix", "error"} :
                     jobs'[w.job].data[f] = jobs[w.job].data[f]
       IN Keeps(creator, creator') /\ Keeps(starter, starter')]_vars

\* C36: POST /api/jobs has stored the job's record before it goes on to the
\* fabric, so the record is there from the request's first await on, and a
\* callback that looks the job up after its deployment was created is not
\* answered 404.
C36_RecordBeforeDeployment ==
    /\ [](creator.pc # "idle" => jobs[creator.job].present)
    /\ [][\A k \in DOMAIN cb :
            (/\ cb[k].pc = "get" /\ cb'[k].pc # "get"
             /\ creator.code = 200 /\ cb[k].job = creator.job)
            => /\ cb'[k].pc = "updGet"
               /\ cb'[k].code # 404]_vars

C36_Witness ==
    \E k \in DOMAIN cb :
        /\ cb[k].pc = "updGet" /\ cb[k].job = creator.job
        /\ creator.pc = "updGet" /\ creator.code = 200
        /\ IsUnset(jobs[creator.job].data, "nosana_run_id")

\* C37: a startDeployment call makes at most 30 gets in its loop, invokes
\* deployment.start() at most once and not at all once a get of its loop has
\* returned STARTING or RUNNING (it then returns null), returns the error
\* message when a fabric call rejects, never throws, and every call that has
\* begun returns.
C37_StartDeploymentTerminates ==
    /\ [](\A k \in 1..MaxStartCalls :
            /\ sd[k].polls <= MaxAttempts
            /\ sd[k].starts <= 1
            /\ sd[k].sawStarted =>
                  sd[k].starts = 0 /\ sd[k].pc = "done" /\ sd[k].result = "null"
            /\ sd[k].rejected => sd[k].pc = "done" /\ sd[k].result = "message"
            /\ sd[k].pc = "done" <=> sd[k].result \in {"null", "message"}
            /\ sd[k].pc # "done" => sd[k].result = "none")
    /\ \A k \in 1..MaxStartCalls : (sd[k].pc # "idle") ~> (sd[k].pc = "done")

C37_Witness ==
    \E k1, k2 \in DOMAIN sd :
        /\ sd[k1].pc = "done" /\ sd[k1].polls = MaxAttempts /\ sd[k1].starts = 1
        /\ sd[k2].pc = "done" /\ sd[k2].sawStarted /\ sd[k2].polls > 1

\* C38: a verify request that is not answered 200 mints no token.  Missing
\* input, an unknown nonce and a nonce bound to another wallet are answered
\* 400 and an invalid signature 401 in a step that changes neither the nonce
\* store nor the tokens (after a 401 the nonce is as usable as before); an
\* expired nonce of the wallet is deleted and then answered 400.  No other
\* verify request fails.
C38_FailedVerifyMintsNothing ==
    /\ [](\A k \in DOMAIN ver :
            (ver[k].pc \in {"getNonce", "delExpired"}
               \/ (ver[k].pc = "done" /\ ver[k].code # 200))
            => \A t \in tokens : t.token # k)
    /\ [][\A k \in DOMAIN ver :
            LET v == ver[k]
                w == ver'[k]
                payload == nonces[v.nonce]
            IN
            /\ (v.pc = "idle" /\ w.pc # "idle") =>
                  /\ UNCHANGED <<nonces, tokens>>
                  /\ IF w.wallet = "" \/ w.nonce = "" \/ w.signature.signer = ""
                     THEN w.pc = "done" /\ w.code = 400
                     ELSE w.pc = "getNonce"
            /\ (v.pc = "getNonce" /\ w.pc # "getNonce") =>
                  /\ UNCHANGED <<nonces, tokens>>
                  /\ IF payload.age = "gone" \/ payload.wallet # v.wallet
                     THEN w.pc = "done" /\ w.code = 400
                     ELSE IF payload.age = "stale"
                     THEN w.pc = "delExpired"
                     ELSE IF ~(v.signature.signer = v.wallet
                               /\ v.signature.msg = payload.challenge)
                     THEN w.pc = "done" /\ w.code = 401
                     ELSE w.pc = "setToken"
            /\ (v.pc = "delExpired" /\ w.pc # "delExpired") =>
                  /\ w.pc = "done" /\ w.code = 400
                  /\ tokens' = tokens
                  /\ nonces' = [nonces EXCEPT ![v.nonce] = NoNonce]
            /\ (v.pc \in {"setToken", "delNonce"} /\ w.pc = "done") =>
                  w.code = 200]_vars

C38_Witness ==
    \E k1, k2 \in DOMAIN ver :
        /\ ver[k1].pc = "done" /\ ver[k1].code = 401
        /\ ver[k2].pc = "done" /\ ver[k2].code = 200
        /\ ver[k1].nonce = ver[k2].nonce
        /\ ~ver[k2].late

\* C39: the TopupSignature marker of a signature is set only by a confirm
\* request that has found the transaction, without meta.err and with an
\* instruction of the credits program; a request that finds the transaction
\* missing is answered 404, one that finds it failed or without such an
\* instruction 400, in a step that leaves the marker unset, so that the next
\* confirm of the signature fetches and checks the transaction again.
C39_MarkerOnlyAfterValidation ==
    /\ [](\A sig \in TopupSignatures : marker[sig] => chainTx[sig] = "ok")
    /\ [][/\ \A k \in DOMAIN tq :
               LET sig == tq[k].signature
                   tx == chainTx[sig]
               IN
               /\ (tq[k].pc = "fetchTx" /\ tq'[k].pc # "fetchTx") =>
                     /\ marker' = marker
                     /\ ~marker[sig] => ~marker'[sig]
                     /\ tx = "missing" => tq'[k].pc = "done" /\ tq'[k].code = 404
                     /\ tx \in {"failed", "otherProgram"} =>
                           tq'[k].pc = "done" /\ tq'[k].code = 400
                     /\ tx = "ok" => tq'[k].pc = "mark"
               /\ (tq[k].pc = "has" /\ tq'[k].pc # "has" /\ ~marker[sig]) =>
                     tq'[k].pc = "fetchTx"
               /\ tq'[k].pc = "mark" => tq[k].pc \in {"fetchTx", "mark"}
          /\ \A sig \in TopupSignatures :
               (~marker[sig] /\ marker'[sig]) =>
                  \E k \in DOMAIN tq :
                     /\ tq[k].pc = "mark" /\ tq'[k].pc # "mark"
                     /\ tq[k].signature = sig]_vars

C39_Witness ==
    \E k1, k2 \in DOMAIN tq :
        /\ tq[k1].pc = "done" /\ tq[k1].code \in {400, 404}
        /\ tq[k1].signature \in TopupSignatures /\ tq[k1].wallet # ""
        /\ tq[k2].signature = tq[k1].signature
        /\ tq[k2].pc = "done" /\ tq[k2].code = 200
        /\ marker[tq[k1].signature]
====
